---- MODULE Spec2Model ----
(***************************************************************************)
(* A model of rollatorium's evaluator (src/src/eval.rs).                   *)
(*                                                                         *)
(* The evaluator is a recursive walk over the syntax tree that threads one *)
(* mutable Evaluator {rng, config, rolls} through every call.  Each Rust   *)
(* method is an operator of the same name that takes the evaluator state   *)
(* and returns a result record holding the evaluator state it leaves.      *)
(*                                                                         *)
(* f64 values are exact rationals n/d in lowest terms, plus the two        *)
(* infinities and NaN.  The sign of zero is not tracked (-0.0 and 0.0      *)
(* compare equal in f64); rounding of inexact f64 results is not modelled. *)
(***************************************************************************)
EXTENDS Integers, Sequences, FiniteSets, TLC

(***************************************************************************)
(* f64 arithmetic                                                          *)
(***************************************************************************)
RECURSIVE Gcd(_, _)
Gcd(a, b) == IF b = 0 THEN a ELSE Gcd(b, a % b)

IAbs(i) == IF i < 0 THEN -i ELSE i

NaN == [k |-> "nan", n |-> 0, d |-> 1]

PosInf == [k |-> "inf", n |-> 1, d |-> 1]

NegInf == [k |-> "inf", n |-> -1, d |-> 1]

\* The rational n/d (d # 0) in lowest terms with a positive denominator.
Fin(n, d) ==
    LET g == Gcd(IAbs(n), IAbs(d))
        s == IF d < 0 THEN -1 ELSE 1
    IN [k |-> "fin", n |-> (s * n) \div g, d |-> IAbs(d) \div g]

Lit(i) == Fin(i, 1)

IsNaN(x) == x.k = "nan"

IsInf(x) == x.k = "inf"

IsFinite(x) == x.k = "fin"

Sgn(x) == IF x.n > 0 THEN 1 ELSE IF x.n < 0 THEN -1 ELSE 0

Inf(s) == IF s < 0 THEN NegInf ELSE PosInf

FNeg(x) ==
    CASE IsNaN(x) -> NaN
      [] IsInf(x) -> Inf(-x.n)
      [] OTHER -> Fin(-x.n, x.d)

FAdd(x, y) ==
    CASE IsNaN(x) \/ IsNaN(y) -> NaN
      [] IsInf(x) /\ IsInf(y) -> IF x.n = y.n THEN x ELSE NaN
      [] IsInf(x) -> x
      [] IsInf(y) -> y
      [] OTHER -> Fin(x.n * y.d + y.n * x.d, x.d * y.d)

FSub(x, y) == FAdd(x, FNeg(y))

FMul(x, y) ==
    CASE IsNaN(x) \/ IsNaN(y) -> NaN
      [] IsInf(x) \/ IsInf(y) ->
            IF Sgn(x) = 0 \/ Sgn(y) = 0 THEN NaN ELSE Inf(Sgn(x) * Sgn(y))
      [] OTHER -> Fin(x.n * y.n, x.d * y.d)

FDiv(x, y) ==
    CASE IsNaN(x) \/ IsNaN(y) -> NaN
      [] IsInf(x) /\ IsInf(y) -> NaN
      [] IsInf(x) -> Inf(x.n * (IF Sgn(y) < 0 THEN -1 ELSE 1))
      [] IsInf(y) -> Lit(0)
      [] y.n = 0 -> IF x.n = 0 THEN NaN ELSE Inf(Sgn(x))
      [] OTHER -> Fin(x.n * y.d, x.d * y.n)

\* f64::trunc: the integer part, rounding toward zero.
FTrunc(x) ==
    IF ~IsFinite(x) THEN x
    ELSE IF x.n >= 0 THEN Lit(x.n \div x.d) ELSE Lit(-((-x.n) \div x.d))

\* f64::round: the nearest integer, half-way cases away from zero.
RoundNat(n, d) == IF n % d >= d - (n % d) THEN (n \div d) + 1 ELSE n \div d

FRound(x) ==
    IF ~IsFinite(x) THEN x
    ELSE IF x.n >= 0 THEN Lit(RoundNat(x.n, x.d)) ELSE Lit(-RoundNat(-x.n, x.d))

FAbs(x) ==
    CASE IsNaN(x) -> NaN
      [] IsInf(x) -> PosInf
      [] OTHER -> Fin(IAbs(x.n), x.d)

\* The f64 % operator (fmod): the result has the sign of the dividend.
FRem(x, y) ==
    CASE IsNaN(x) \/ IsNaN(y) -> NaN
      [] IsInf(x) -> NaN
      [] IsInf(y) -> x
      [] y.n = 0 -> NaN
      [] OTHER -> FSub(x, FMul(FTrunc(FDiv(x, y)), y))

\* Comparisons: every comparison with NaN is false, except !=.
FLt(x, y) ==
    CASE IsNaN(x) \/ IsNaN(y) -> FALSE
      [] IsInf(x) /\ IsInf(y) -> x.n < y.n
      [] IsInf(x) -> x.n < 0
      [] IsInf(y) -> y.n > 0
      [] OTHER -> x.n * y.d < y.n * x.d

FEq(x, y) == ~IsNaN(x) /\ ~IsNaN(y) /\ x = y

FNe(x, y) == ~FEq(x, y)

FGt(x, y) == FLt(y, x)

FLe(x, y) == FLt(x, y) \/ FEq(x, y)

FGe(x, y) == FLe(y, x)

\* `b as i32 as f64`
BoolToF64(b) == IF b THEN Lit(1) ELSE Lit(0)

EPSILON_NUM == 1

EPSILON_DEN == 1000000000

\* x > EPSILON for the 1e-9 tolerance; a * DEN > b * NUM without overflow.
GtEpsilon(x) ==
    CASE IsNaN(x) -> FALSE
      [] IsInf(x) -> x.n > 0
      [] OTHER -> x.n > (x.d * EPSILON_NUM) \div EPSILON_DEN

LeEpsilon(x) == ~IsNaN(x) /\ ~GtEpsilon(x)

\* Iterator::sum over f64.
RECURSIVE FSum(_)
FSum(s) == IF s = <<>> THEN Lit(0) ELSE FAdd(FSum(SubSeq(s, 1, Len(s) - 1)), s[Len(s)])

(***************************************************************************)
(* Syntax tree (src/src/ast.rs)                                            *)
(***************************************************************************)
\* Option::None for Dice.num
None == [type |-> "None"]

Literal(v) == [type |-> "Literal", value |-> v]

Unary(operator, operand) ==
    [type |-> "Unary", operator |-> operator, operand |-> operand]

Binary(operator, left, right) ==
    [type |-> "Binary", operator |-> operator, left |-> left, right |-> right]

Dice(num, size) == [type |-> "Dice", num |-> num, size |-> size]

SetNode(elements, operations) ==
    [type |-> "Set", elements |-> elements, operations |-> operations]

DiceWithOps(dice, operations) ==
    [type |-> "DiceWithOps", dice |-> dice, operations |-> operations]

Annotated(expr, annotations) ==
    [type |-> "Annotated", expr |-> expr, annotations |-> annotations]

\* DiceSize::Value(inner) and DiceSize::Percent
SizeValue(inner) == [kind |-> "Value", inner |-> inner]

Percent == [kind |-> "Percent", inner |-> None]

Selector(kind, target) == [kind |-> kind, target |-> target]

SetOperation(operator, selectors) ==
    [operator |-> operator, selectors |-> selectors]

SelectorKind ==
    {"Literal", "Highest", "Lowest", "GreaterThan", "GreaterThanOrEqual",
     "LessThan", "LessThanOrEqual", "EqualTo", "NotEqual"}

SetOperator ==
    {"Keep", "Drop", "Reroll", "RerollOnce", "RerollAdd", "Explode",
     "ExplodeCompound", "ExplodePenetrate", "Penetrate", "Minimum", "Maximum",
     "CountSuccess", "CountFailure"}

(***************************************************************************)
(* Evaluator state and results (src/src/eval.rs)                           *)
(***************************************************************************)
EvalConfig(max_rolls) == [max_rolls |-> max_rolls]

\* The randomness source: the raw values it yields, cyclically, and the
\* number of values drawn from it so far.
Rng(draws, pos) == [draws |-> draws, pos |-> pos]

\* struct Evaluator { rng, config, rolls }
Evaluator(rng, config, rolls) == [rng |-> rng, config |-> config, rolls |-> rolls]

\* Err(Eval(msg)); ev is the evaluator state at the moment of the failure.
Err(msg, ev) == [ok |-> FALSE, err |-> msg, ev |-> ev]

\* Ok(EvalResult { total, value })
OkResult(total, value, ev) ==
    [ok |-> TRUE, err |-> "", total |-> total, value |-> value, ev |-> ev]

\* DieResult::new
DieResult_new(value, origin) ==
    [value |-> value, rolls |-> <<value>>, kept |-> TRUE, dropped |-> FALSE,
     origin |-> origin, adjustments |-> <<>>]

\* DieResult::refresh_drop_state and SetElement::refresh_drop_state
refresh_drop_state(m) == [m EXCEPT !.dropped = ~m.kept]

\* `let name = value;` and the statements after it, which use the value.
Let(value, rest(_)) == rest(value)

\* Uniform::new_inclusive(low, high)
Uniform(low, high) == [low |-> low, high |-> high]

\* distribution.sample(&mut rng): the next raw value mapped into [low, high].
sample(distribution, rng) ==
    distribution.low
      + (rng.draws[(rng.pos % Len(rng.draws)) + 1]
           % (distribution.high - distribution.low + 1))

advance(rng) == [rng EXCEPT !.pos = @ + 1]

\* A variant of roll_die that refuses only once the counter is past max_rolls.
roll_die_past_budget(distribution, die_size, ev) ==
    IF ev.rolls > ev.config.max_rolls
    THEN Err("Exceeded maximum number of rolls", ev)
    ELSE LET raw == Lit(sample(distribution, ev.rng))
             value == IF die_size.kind = "Percent" THEN FMul(raw, Lit(10)) ELSE raw
         IN [ok |-> TRUE, err |-> "", value |-> value,
             ev |-> [ev EXCEPT !.rolls = @ + 1, !.rng = advance(@)]]

\* A variant of roll_die that leaves the percentile digit unscaled.
roll_die_unscaled(distribution, die_size, ev) ==
    IF ev.rolls >= ev.config.max_rolls
    THEN Err("Exceeded maximum number of rolls", ev)
    ELSE [ok |-> TRUE, err |-> "", value |-> Lit(sample(distribution, ev.rng)),
          ev |-> [ev EXCEPT !.rolls = @ + 1, !.rng = advance(@)]]

\* A variant of roll_die that counts the roll but never refuses it.
roll_die_unbudgeted(distribution, die_size, ev) ==
    LET raw == Lit(sample(distribution, ev.rng))
        value == IF die_size.kind = "Percent" THEN FMul(raw, Lit(10)) ELSE raw
    IN [ok |-> TRUE, err |-> "", value |-> value,
        ev |-> [ev EXCEPT !.rolls = @ + 1, !.rng = advance(@)]]

\* roll_die: the budget check, the counter, the draw, the percentile scaling.
roll_die(distribution, die_size, ev) ==
    IF ev.rolls >= ev.config.max_rolls
    THEN Err("Exceeded maximum number of rolls", ev)
    ELSE LET raw == Lit(sample(distribution, ev.rng))
             value == IF die_size.kind = "Percent" THEN FMul(raw, Lit(10)) ELSE raw
         IN [ok |-> TRUE, err |-> "", value |-> value,
             ev |-> [ev EXCEPT !.rolls = @ + 1, !.rng = advance(@)]]

\* `value.round() as usize` / `as u32`: a saturating cast, NaN to 0.
cast_unsigned(x) ==
    CASE IsNaN(x) -> 0
      [] IsInf(x) -> IF x.n > 0 THEN 2147483647 ELSE 0
      [] OTHER -> IF x.n < 0 THEN 0 ELSE x.n \div x.d

\* A variant of as_usize without the sign check.
as_usize_unsigned(value, context) ==
    IF GtEpsilon(FAbs(FSub(FRound(value), value)))
    THEN [ok |-> FALSE, err |-> context \o " must be an integer", n |-> 0]
    ELSE [ok |-> TRUE, err |-> "", n |-> cast_unsigned(FRound(value))]

\* as_usize: a non-negative integer within EPSILON, or an error.
as_usize(value, context) ==
    IF FLt(value, Lit(0))
    THEN [ok |-> FALSE, err |-> context \o " must be non-negative", n |-> 0]
    ELSE IF GtEpsilon(FAbs(FSub(FRound(value), value)))
    THEN [ok |-> FALSE, err |-> context \o " must be an integer", n |-> 0]
    ELSE [ok |-> TRUE, err |-> "", n |-> cast_unsigned(FRound(value))]

as_u32(value, context) ==
    IF FLe(value, Lit(0))
    THEN [ok |-> FALSE, err |-> context \o " must be positive", n |-> 0]
    ELSE IF GtEpsilon(FAbs(FSub(FRound(value), value)))
    THEN [ok |-> FALSE, err |-> context \o " must be an integer", n |-> 0]
    ELSE [ok |-> TRUE, err |-> "", n |-> cast_unsigned(FRound(value))]

\* f64::partial_cmp
partial_cmp(a, b) ==
    CASE FLt(a, b) -> "Less"
      [] FGt(a, b) -> "Greater"
      [] FEq(a, b) -> "Equal"
      [] OTHER -> "None"

unwrap_or_equal(o) == IF o = "None" THEN "Equal" ELSE o

compare_desc(a, b) == unwrap_or_equal(partial_cmp(b, a))

compare_asc(a, b) == unwrap_or_equal(partial_cmp(a, b))

\* slice::sort_by is a stable sort: an element goes before the first one it
\* is Less than.  `desc` picks compare_desc or compare_asc; val[i] is the
\* sort key of index i.  Indices are 1-based here, 0-based in the source.
RECURSIVE insert_sorted(_, _, _, _)
insert_sorted(s, x, val, desc) ==
    IF s = <<>> THEN <<x>>
    ELSE LET c == IF desc THEN compare_desc(val[x], val[Head(s)])
                  ELSE compare_asc(val[x], val[Head(s)])
         IN IF c = "Less" THEN <<x>> \o s
            ELSE <<Head(s)>> \o insert_sorted(Tail(s), x, val, desc)

RECURSIVE sort_by(_, _, _)
sort_by(indices, val, desc) ==
    IF indices = <<>> THEN <<>>
    ELSE insert_sorted(sort_by(SubSeq(indices, 1, Len(indices) - 1), val, desc),
                       indices[Len(indices)], val, desc)

\* Vec::truncate
truncate(s, n) == SubSeq(s, 1, IF n < Len(s) THEN n ELSE Len(s))

\* The indices i of s, in order, with P(i).
RECURSIVE filter_indices_from(_, _, _)
filter_indices_from(flags, i, acc) ==
    IF i > Len(flags) THEN acc
    ELSE filter_indices_from(flags, i + 1, IF flags[i] THEN Append(acc, i) ELSE acc)

filter_indices(flags) == filter_indices_from(flags, 1, <<>>)

\* The elements of a set of indices in ascending order (sort_unstable).
RECURSIVE sorted_seq(_)
sorted_seq(S) ==
    IF S = {} THEN <<>>
    ELSE LET m == CHOOSE x \in S : \A y \in S : x <= y
         IN <<m>> \o sorted_seq(S \ {m})

seq_set(s) == {s[i] : i \in DOMAIN s}

values_of(pool) == [i \in DOMAIN pool |-> pool[i].value]

\* A variant of select_highest that sorts ascending.
select_highest_ascending(dice, count) ==
    truncate(sort_by(filter_indices([i \in DOMAIN dice |-> dice[i].kept]),
                     values_of(dice), FALSE), count)

select_highest(dice, count) ==
    truncate(sort_by(filter_indices([i \in DOMAIN dice |-> dice[i].kept]),
                     values_of(dice), TRUE), count)

\* A variant of select_lowest that ranks the dice not kept as well.
select_lowest_unfiltered(dice, count) ==
    truncate(sort_by(filter_indices([i \in DOMAIN dice |-> TRUE]),
                     values_of(dice), FALSE), count)

select_lowest(dice, count) ==
    truncate(sort_by(filter_indices([i \in DOMAIN dice |-> dice[i].kept]),
                     values_of(dice), FALSE), count)

\* The closure a comparison selector passes to select_value and
\* select_set_value, as the selector kind and the target it captures.
predicate_call(predicate, die_value) ==
    CASE predicate.kind = "GreaterThan" -> FGt(die_value, predicate.value)
      [] predicate.kind = "GreaterThanOrEqual" -> FGe(die_value, predicate.value)
      [] predicate.kind = "LessThan" -> FLt(die_value, predicate.value)
      [] predicate.kind = "LessThanOrEqual" -> FLe(die_value, predicate.value)
      [] predicate.kind = "EqualTo" ->
           LeEpsilon(FAbs(FSub(die_value, predicate.value)))
      [] predicate.kind = "NotEqual" ->
           GtEpsilon(FAbs(FSub(die_value, predicate.value)))
      [] predicate.kind = "Literal" ->
           LeEpsilon(FAbs(FSub(die_value, predicate.value)))

\* A variant of select_value that looks at the dice that are not kept as
\* well.
select_value_unfiltered(dice, predicate) ==
    filter_indices([i \in DOMAIN dice |-> predicate_call(predicate, dice[i].value)])

select_value(dice, predicate) ==
    filter_indices([i \in DOMAIN dice |->
                      dice[i].kept /\ predicate_call(predicate, dice[i].value)])

\* EvalResult { total, value } as stored inside a result tree.
EvalResult(r) == [total |-> r.total, value |-> r.value]

\* Result<Vec<usize>> of the selection methods, with the evaluator state.
SelErr(msg, ev) == [ok |-> FALSE, err |-> msg, indices |-> <<>>, ev |-> ev]

SelOk(indices, ev) == [ok |-> TRUE, err |-> "", indices |-> indices, ev |-> ev]

\* Result<()> of the modifier pipeline, with the pool and evaluator state.
PoolErr(msg, ev) == [ok |-> FALSE, err |-> msg, dice |-> <<>>, ev |-> ev]

PoolOk(dice, ev) == [ok |-> TRUE, err |-> "", dice |-> dice, ev |-> ev]

RECURSIVE eval(_, _)
RECURSIVE eval_dice(_, _, _, _)
RECURSIVE eval_set(_, _, _)
RECURSIVE select_dice_loop(_, _, _, _, _)
RECURSIVE select_set_elements_loop(_, _, _, _, _, _)
RECURSIVE apply_dice_operations(_, _, _, _, _)
RECURSIVE apply_set_operations_loop(_, _, _, _, _)
RECURSIVE apply_reroll(_, _, _, _, _)
RECURSIVE explode_loop(_, _, _, _, _, _, _)
RECURSIVE eval_elements(_, _, _, _)

(***************************************************************************)
(* Selectors on a dice pool                                                *)
(***************************************************************************)
\* One iteration of the `for selector in selectors` loop of select_dice:
\* the indices one selector matches.
select_dice_one(dice, selector, ev) ==
    Let(eval(selector.target, ev), LAMBDA t :
        IF ~t.ok THEN SelErr(t.err, t.ev)
        ELSE IF selector.kind \in {"Highest", "Lowest"}
        THEN Let(as_usize(t.total, "selector"), LAMBDA count :
                 IF ~count.ok THEN SelErr(count.err, t.ev)
                 ELSE IF selector.kind = "Highest"
                 THEN SelOk(select_highest(dice, count.n), t.ev)
                 ELSE SelOk(select_lowest(dice, count.n), t.ev))
        ELSE SelOk(select_value(dice, [kind |-> selector.kind, value |-> t.total]),
                   t.ev))

select_dice_loop(dice, selectors, i, selected, ev) ==
    IF i > Len(selectors) THEN SelOk(sorted_seq(selected), ev)
    ELSE Let(select_dice_one(dice, selectors[i], ev), LAMBDA r :
             IF ~r.ok THEN r
             ELSE select_dice_loop(dice, selectors, i + 1,
                                   selected \cup seq_set(r.indices), r.ev))

select_dice(dice, selectors, ev) ==
    IF selectors = <<>> THEN SelOk(<<>>, ev)
    ELSE select_dice_loop(dice, selectors, 1, {}, ev)

(***************************************************************************)
(* Modifiers on a dice pool: the arms of apply_dice_operations             *)
(***************************************************************************)
\* `for idx in selected { roll_die; die.rolls.push; die.value = new_value }`
RECURSIVE reroll_each(_, _, _, _, _, _)
reroll_each(dice, indices, i, distribution, size, ev) ==
    IF i > Len(indices) THEN PoolOk(dice, ev)
    ELSE Let(roll_die(distribution, size, ev), LAMBDA r :
             IF ~r.ok THEN PoolErr(r.err, r.ev)
             ELSE reroll_each(
                    [dice EXCEPT ![indices[i]] =
                                    [@ EXCEPT !.rolls = Append(@, r.value),
                                              !.value = r.value]],
                    indices, i + 1, distribution, size, r.ev))

\* A variant of the rolling loop that puts each new die in front of the
\* pool.
RECURSIVE roll_new_dice_in_front(_, _, _, _, _, _)
roll_new_dice_in_front(dice, n, origin, distribution, size, ev) ==
    IF n = 0 THEN PoolOk(dice, ev)
    ELSE Let(roll_die(distribution, size, ev), LAMBDA r :
             IF ~r.ok THEN PoolErr(r.err, r.ev)
             ELSE roll_new_dice_in_front(<<DieResult_new(r.value, origin)>> \o dice,
                                         n - 1, origin, distribution, size, r.ev))

\* `for _ in 0..n { roll_die; dice.push(DieResult::new(value, origin)) }`
RECURSIVE roll_new_dice(_, _, _, _, _, _)
roll_new_dice(dice, n, origin, distribution, size, ev) ==
    IF n = 0 THEN PoolOk(dice, ev)
    ELSE Let(roll_die(distribution, size, ev), LAMBDA r :
             IF ~r.ok THEN PoolErr(r.err, r.ev)
             ELSE roll_new_dice(Append(dice, DieResult_new(r.value, origin)),
                                n - 1, origin, distribution, size, r.ev))

\* A variant of the Keep arm that selects with the first selector only.
apply_keep_first_selector(dice, operation, ev) ==
    Let(select_dice(dice, <<Head(operation.selectors)>>, ev), LAMBDA sel :
        IF ~sel.ok THEN PoolErr(sel.err, sel.ev)
        ELSE PoolOk([idx \in DOMAIN dice |->
                       IF dice[idx].kept
                       THEN [dice[idx] EXCEPT !.kept = idx \in seq_set(sel.indices)]
                       ELSE dice[idx]],
                    sel.ev))

apply_keep(dice, operation, ev) ==
    Let(select_dice(dice, operation.selectors, ev), LAMBDA sel :
        IF ~sel.ok THEN PoolErr(sel.err, sel.ev)
        ELSE PoolOk([idx \in DOMAIN dice |->
                       IF dice[idx].kept
                       THEN [dice[idx] EXCEPT !.kept = idx \in seq_set(sel.indices)]
                       ELSE dice[idx]],
                    sel.ev))

\* A variant of the Drop arm that also turns every die not selected back
\* into a kept one.
apply_drop_restoring(dice, operation, ev) ==
    Let(select_dice(dice, operation.selectors, ev), LAMBDA sel :
        IF ~sel.ok THEN PoolErr(sel.err, sel.ev)
        ELSE PoolOk([idx \in DOMAIN dice |->
                       [dice[idx] EXCEPT !.kept = idx \notin seq_set(sel.indices)]],
                    sel.ev))

apply_drop(dice, operation, ev) ==
    Let(select_dice(dice, operation.selectors, ev), LAMBDA sel :
        IF ~sel.ok THEN PoolErr(sel.err, sel.ev)
        ELSE PoolOk([idx \in DOMAIN dice |->
                       IF idx \in seq_set(sel.indices)
                       THEN [dice[idx] EXCEPT !.kept = FALSE]
                       ELSE dice[idx]],
                    sel.ev))

\* A variant of the Reroll pass that ends the loop when the pass left every
\* value as it was.
reroll_pass_settling(dice, operation, distribution, size, ev) ==
    Let(select_dice(dice, operation.selectors, ev), LAMBDA sel :
        IF ~sel.ok THEN [PoolErr(sel.err, sel.ev) EXCEPT !.dice = dice] @@ [again |-> FALSE]
        ELSE IF sel.indices = <<>> THEN PoolOk(dice, sel.ev) @@ [again |-> FALSE]
        ELSE Let(reroll_each(dice, sel.indices, 1, distribution, size, sel.ev),
                 LAMBDA r : r @@ [again |-> r.ok /\ values_of(r.dice) # values_of(dice)]))

\* One iteration of the Reroll `loop`; again = FALSE stands for `break`.
reroll_pass(dice, operation, distribution, size, ev) ==
    Let(select_dice(dice, operation.selectors, ev), LAMBDA sel :
        IF ~sel.ok THEN [PoolErr(sel.err, sel.ev) EXCEPT !.dice = dice] @@ [again |-> FALSE]
        ELSE IF sel.indices = <<>> THEN PoolOk(dice, sel.ev) @@ [again |-> FALSE]
        ELSE Let(reroll_each(dice, sel.indices, 1, distribution, size, sel.ev),
                 LAMBDA r : r @@ [again |-> r.ok]))

\* A variant of the Reroll arm that makes one pass and does not look at the
\* new values.
apply_reroll_one_pass(dice, operation, distribution, size, ev) ==
    Let(reroll_pass(dice, operation, distribution, size, ev), LAMBDA p :
        IF p.ok THEN PoolOk(p.dice, p.ev) ELSE PoolErr(p.err, p.ev))

apply_reroll(dice, operation, distribution, size, ev) ==
    Let(reroll_pass(dice, operation, distribution, size, ev), LAMBDA p :
        IF p.ok /\ p.again
        THEN apply_reroll(p.dice, operation, distribution, size, p.ev)
        ELSE IF p.ok THEN PoolOk(p.dice, p.ev) ELSE PoolErr(p.err, p.ev))

\* A variant of the RerollOnce arm that rerolls until no die matches.
apply_reroll_once_repeating(dice, operation, distribution, size, ev) ==
    apply_reroll(dice, operation, distribution, size, ev)

apply_reroll_once(dice, operation, distribution, size, ev) ==
    Let(select_dice(dice, operation.selectors, ev), LAMBDA sel :
        IF ~sel.ok THEN PoolErr(sel.err, sel.ev)
        ELSE reroll_each(dice, sel.indices, 1, distribution, size, sel.ev))

\* A variant of the RerollAdd arm that goes on adding a die for every added
\* die that matches.
apply_reroll_add_exploding(dice, operation, distribution, size, ev) ==
    Let(select_dice(dice, operation.selectors, ev), LAMBDA sel :
        IF ~sel.ok THEN PoolErr(sel.err, sel.ev)
        ELSE Let(explode_loop(dice, sel.indices, 0, operation, distribution, size,
                              sel.ev),
                 LAMBDA r :
                   IF ~r.ok THEN r
                   ELSE PoolOk([i \in DOMAIN r.dice |->
                                  IF i > Len(dice)
                                  THEN [r.dice[i] EXCEPT !.origin = "RerollAdd"]
                                  ELSE r.dice[i]],
                               r.ev)))

apply_reroll_add(dice, operation, distribution, size, ev) ==
    Let(select_dice(dice, operation.selectors, ev), LAMBDA sel :
        IF ~sel.ok THEN PoolErr(sel.err, sel.ev)
        ELSE roll_new_dice(dice, Len(sel.indices), "RerollAdd", distribution, size,
                           sel.ev))

\* A variant of one Explode iteration that never adds the new die to the
\* queue.
explode_step_once(dice, queue, idx, operation, distribution, size, ev) ==
    Let(roll_die(distribution, size, ev), LAMBDA r :
        IF ~r.ok
        THEN [ok |-> FALSE, err |-> r.err, dice |-> dice, queue |-> queue,
              idx |-> idx + 1, ev |-> r.ev]
        ELSE [ok |-> TRUE, err |-> "", dice |-> Append(dice, DieResult_new(r.value, "Explosion")),
              queue |-> queue, idx |-> idx + 1, ev |-> r.ev])

\* One iteration of the Explode `while idx < queue.len()` loop.
explode_step(dice, queue, idx, operation, distribution, size, ev) ==
    Let(roll_die(distribution, size, ev), LAMBDA r :
        IF ~r.ok
        THEN [ok |-> FALSE, err |-> r.err, dice |-> dice, queue |-> queue,
              idx |-> idx + 1, ev |-> r.ev]
        ELSE Let(Append(dice, DieResult_new(r.value, "Explosion")), LAMBDA grown :
             Let(select_dice(grown, operation.selectors, r.ev), LAMBDA sel :
                 IF ~sel.ok
                 THEN [ok |-> FALSE, err |-> sel.err, dice |-> grown, queue |-> queue,
                       idx |-> idx + 1, ev |-> sel.ev]
                 ELSE [ok |-> TRUE, err |-> "", dice |-> grown,
                       queue |-> IF Len(grown) \in seq_set(sel.indices)
                                 THEN Append(queue, Len(grown)) ELSE queue,
                       idx |-> idx + 1, ev |-> sel.ev])))

explode_loop(dice, queue, idx, operation, distribution, size, ev) ==
    IF ~(idx < Len(queue)) THEN PoolOk(dice, ev)
    ELSE Let(explode_step(dice, queue, idx, operation, distribution, size, ev),
             LAMBDA s :
               IF ~s.ok THEN PoolErr(s.err, s.ev)
               ELSE explode_loop(s.dice, s.queue, s.idx, operation, distribution, size,
                                 s.ev))

apply_explode(dice, operation, distribution, size, ev) ==
    Let(select_dice(dice, operation.selectors, ev), LAMBDA sel :
        IF ~sel.ok THEN PoolErr(sel.err, sel.ev)
        ELSE explode_loop(dice, sel.indices, 0, operation, distribution, size, sel.ev))

\* A variant of `affected` that ignores the scope selectors.
affected_dice_all_kept(dice, operation, ev) ==
    SelOk(filter_indices([i \in DOMAIN dice |-> dice[i].kept]), ev)

\* `affected`: the dice the second and later selectors select, or every kept die.
affected_dice(dice, operation, ev) ==
    IF Len(operation.selectors) > 1
    THEN select_dice(dice, Tail(operation.selectors), ev)
    ELSE SelOk(filter_indices([i \in DOMAIN dice |-> dice[i].kept]), ev)

\* A variant of the Minimum arm without the `threshold <= 0.0` check.
apply_minimum_unchecked(dice, operation, ev) ==
    IF operation.selectors = <<>>
    THEN PoolErr("Minimum operation requires a selector", ev)
    ELSE IF operation.selectors[1].kind # "Literal"
    THEN PoolErr("selector target must be positive", ev)
    ELSE Let(eval(operation.selectors[1].target, ev), LAMBDA t :
         IF ~t.ok THEN PoolErr(t.err, t.ev)
         ELSE Let(affected_dice(dice, operation, t.ev), LAMBDA affected :
              IF ~affected.ok THEN PoolErr(affected.err, affected.ev)
              ELSE PoolOk([idx \in DOMAIN dice |->
                             IF idx \in seq_set(affected.indices)
                                /\ FLt(dice[idx].value, t.total)
                             THEN [dice[idx] EXCEPT
                                     !.value = t.total,
                                     !.adjustments =
                                        Append(@, [type |-> "Minimum",
                                                   threshold |-> t.total,
                                                   previous |-> dice[idx].value])]
                             ELSE dice[idx]],
                          affected.ev)))

\* A variant of the Minimum arm that clamps without recording the adjustment.
apply_minimum_unrecorded(dice, operation, ev) ==
    IF operation.selectors = <<>>
    THEN PoolErr("Minimum operation requires a selector", ev)
    ELSE IF operation.selectors[1].kind # "Literal"
    THEN PoolErr("selector target must be positive", ev)
    ELSE Let(eval(operation.selectors[1].target, ev), LAMBDA t :
         IF ~t.ok THEN PoolErr(t.err, t.ev)
         ELSE IF FLe(t.total, Lit(0))
         THEN PoolErr("selector target must be positive", t.ev)
         ELSE Let(affected_dice(dice, operation, t.ev), LAMBDA affected :
              IF ~affected.ok THEN PoolErr(affected.err, affected.ev)
              ELSE PoolOk([idx \in DOMAIN dice |->
                             IF idx \in seq_set(affected.indices)
                                /\ FLt(dice[idx].value, t.total)
                             THEN [dice[idx] EXCEPT !.value = t.total]
                             ELSE dice[idx]],
                          affected.ev)))

\* The Minimum arm.
apply_minimum(dice, operation, ev) ==
    IF operation.selectors = <<>>
    THEN PoolErr("Minimum operation requires a selector", ev)
    ELSE IF operation.selectors[1].kind # "Literal"
    THEN PoolErr("selector target must be positive", ev)
    ELSE Let(eval(operation.selectors[1].target, ev), LAMBDA t :
         IF ~t.ok THEN PoolErr(t.err, t.ev)
         ELSE IF FLe(t.total, Lit(0))
         THEN PoolErr("selector target must be positive", t.ev)
         ELSE Let(affected_dice(dice, operation, t.ev), LAMBDA affected :
              IF ~affected.ok THEN PoolErr(affected.err, affected.ev)
              ELSE PoolOk([idx \in DOMAIN dice |->
                             IF idx \in seq_set(affected.indices)
                                /\ FLt(dice[idx].value, t.total)
                             THEN [dice[idx] EXCEPT
                                     !.value = t.total,
                                     !.adjustments =
                                        Append(@, [type |-> "Minimum",
                                                   threshold |-> t.total,
                                                   previous |-> dice[idx].value])]
                             ELSE dice[idx]],
                          affected.ev)))

\* A variant of the Maximum arm with the Minimum arm's `threshold <= 0.0` check.
apply_maximum_checked(dice, operation, ev) ==
    IF operation.selectors = <<>>
    THEN PoolErr("Maximum operation requires a selector", ev)
    ELSE IF operation.selectors[1].kind # "Literal"
    THEN PoolErr("selector target must be positive", ev)
    ELSE Let(eval(operation.selectors[1].target, ev), LAMBDA t :
         IF ~t.ok THEN PoolErr(t.err, t.ev)
         ELSE IF FLe(t.total, Lit(0))
         THEN PoolErr("selector target must be positive", t.ev)
         ELSE Let(affected_dice(dice, operation, t.ev), LAMBDA affected :
              IF ~affected.ok THEN PoolErr(affected.err, affected.ev)
              ELSE PoolOk([idx \in DOMAIN dice |->
                             IF idx \in seq_set(affected.indices)
                                /\ FGt(dice[idx].value, t.total)
                             THEN [dice[idx] EXCEPT
                                     !.value = t.total,
                                     !.adjustments =
                                        Append(@, [type |-> "Maximum",
                                                   threshold |-> t.total,
                                                   previous |-> dice[idx].value])]
                             ELSE dice[idx]],
                          affected.ev)))

\* The Maximum arm: no check of the threshold's sign.
apply_maximum(dice, operation, ev) ==
    IF operation.selectors = <<>>
    THEN PoolErr("Maximum operation requires a selector", ev)
    ELSE IF operation.selectors[1].kind # "Literal"
    THEN PoolErr("selector target must be positive", ev)
    ELSE Let(eval(operation.selectors[1].target, ev), LAMBDA t :
         IF ~t.ok THEN PoolErr(t.err, t.ev)
         ELSE Let(affected_dice(dice, operation, t.ev), LAMBDA affected :
              IF ~affected.ok THEN PoolErr(affected.err, affected.ev)
              ELSE PoolOk([idx \in DOMAIN dice |->
                             IF idx \in seq_set(affected.indices)
                                /\ FGt(dice[idx].value, t.total)
                             THEN [dice[idx] EXCEPT
                                     !.value = t.total,
                                     !.adjustments =
                                        Append(@, [type |-> "Maximum",
                                                   threshold |-> t.total,
                                                   previous |-> dice[idx].value])]
                             ELSE dice[idx]],
                          affected.ev)))

\* The `other =>` arm: the reserved operators.
apply_unsupported(operation, ev) ==
    PoolErr("Set operation " \o operation.operator
              \o " is not supported in the evaluator", ev)

\* A variant of the `match operation.operator` of apply_dice_operations whose
\* `other` arm skips the modifier.
apply_dice_operation_lenient(dice, operation, distribution, size, ev) ==
    CASE operation.operator = "Keep" -> apply_keep(dice, operation, ev)
      [] operation.operator = "Drop" -> apply_drop(dice, operation, ev)
      [] operation.operator = "Reroll" ->
           apply_reroll(dice, operation, distribution, size, ev)
      [] operation.operator = "RerollOnce" ->
           apply_reroll_once(dice, operation, distribution, size, ev)
      [] operation.operator = "RerollAdd" ->
           apply_reroll_add(dice, operation, distribution, size, ev)
      [] operation.operator = "Explode" ->
           apply_explode(dice, operation, distribution, size, ev)
      [] operation.operator = "Minimum" -> apply_minimum(dice, operation, ev)
      [] operation.operator = "Maximum" -> apply_maximum(dice, operation, ev)
      [] OTHER -> PoolOk(dice, ev)

\* The body of `for operation in operations { match operation.operator ... }`.
apply_dice_operation(dice, operation, distribution, size, ev) ==
    CASE operation.operator = "Keep" -> apply_keep(dice, operation, ev)
      [] operation.operator = "Drop" -> apply_drop(dice, operation, ev)
      [] operation.operator = "Reroll" ->
           apply_reroll(dice, operation, distribution, size, ev)
      [] operation.operator = "RerollOnce" ->
           apply_reroll_once(dice, operation, distribution, size, ev)
      [] operation.operator = "RerollAdd" ->
           apply_reroll_add(dice, operation, distribution, size, ev)
      [] operation.operator = "Explode" ->
           apply_explode(dice, operation, distribution, size, ev)
      [] operation.operator = "Minimum" -> apply_minimum(dice, operation, ev)
      [] operation.operator = "Maximum" -> apply_maximum(dice, operation, ev)
      [] OTHER -> apply_unsupported(operation, ev)

apply_dice_operations(dice, distribution, operations, size, ev) ==
    IF operations = <<>> THEN PoolOk(dice, ev)
    ELSE Let(apply_dice_operation(dice, Head(operations), distribution, size, ev),
             LAMBDA r :
               IF ~r.ok THEN r
               ELSE apply_dice_operations(r.dice, distribution, Tail(operations), size,
                                          r.ev))

(***************************************************************************)
(* Selectors and modifiers on a set                                        *)
(***************************************************************************)
totals_of(elements) == [i \in DOMAIN elements |-> elements[i].value.total]

select_set_highest(elements, count, only_kept) ==
    truncate(sort_by(filter_indices([i \in DOMAIN elements |->
                                       ~only_kept \/ elements[i].kept]),
                     totals_of(elements), TRUE), count)

select_set_lowest(elements, count, only_kept) ==
    truncate(sort_by(filter_indices([i \in DOMAIN elements |->
                                       ~only_kept \/ elements[i].kept]),
                     totals_of(elements), FALSE), count)

select_set_value(elements, predicate, only_kept) ==
    filter_indices([i \in DOMAIN elements |->
                      (~only_kept \/ elements[i].kept)
                      /\ predicate_call(predicate, elements[i].value.total)])

\* One iteration of the `for selector in selectors` loop of
\* select_set_elements.
select_set_elements_one(elements, selector, only_kept, ev) ==
    Let(eval(selector.target, ev), LAMBDA t :
        IF ~t.ok THEN SelErr(t.err, t.ev)
        ELSE IF selector.kind \in {"Highest", "Lowest"}
        THEN Let(as_usize(t.total, "selector"), LAMBDA count :
                 IF ~count.ok THEN SelErr(count.err, t.ev)
                 ELSE IF selector.kind = "Highest"
                 THEN SelOk(select_set_highest(elements, count.n, only_kept), t.ev)
                 ELSE SelOk(select_set_lowest(elements, count.n, only_kept), t.ev))
        ELSE SelOk(select_set_value(elements,
                                    [kind |-> selector.kind, value |-> t.total],
                                    only_kept), t.ev))

select_set_elements_loop(elements, selectors, only_kept, i, selected, ev) ==
    IF i > Len(selectors) THEN SelOk(sorted_seq(selected), ev)
    ELSE Let(select_set_elements_one(elements, selectors[i], only_kept, ev), LAMBDA r :
             IF ~r.ok THEN r
             ELSE select_set_elements_loop(elements, selectors, only_kept, i + 1,
                                           selected \cup seq_set(r.indices), r.ev))

select_set_elements(elements, selectors, only_kept, ev) ==
    IF selectors = <<>> THEN SelOk(<<>>, ev)
    ELSE select_set_elements_loop(elements, selectors, only_kept, 1, {}, ev)

\* A variant of the Keep arm of apply_set_operations that clears the kept
\* flags on every Keep, not only on the first.
apply_set_keep_replacing(elements, operation, keep_initialized, ev) ==
    Let(select_set_elements(elements, operation.selectors, FALSE, ev), LAMBDA sel :
        IF ~sel.ok THEN PoolErr(sel.err, sel.ev)
        ELSE PoolOk([idx \in DOMAIN elements |->
                       [elements[idx] EXCEPT !.kept = idx \in seq_set(sel.indices)]],
                    sel.ev))

\* A variant of the Keep arm of apply_set_operations that narrows as the
\* Keep of a dice pool does.
apply_set_keep_narrowing(elements, operation, keep_initialized, ev) ==
    Let(select_set_elements(elements, operation.selectors, TRUE, ev), LAMBDA sel :
        IF ~sel.ok THEN PoolErr(sel.err, sel.ev)
        ELSE PoolOk([idx \in DOMAIN elements |->
                       IF elements[idx].kept
                       THEN [elements[idx] EXCEPT !.kept = idx \in seq_set(sel.indices)]
                       ELSE elements[idx]],
                    sel.ev))

\* The Keep arm of apply_set_operations; the result carries keep_initialized.
apply_set_keep(elements, operation, keep_initialized, ev) ==
    Let(select_set_elements(elements, operation.selectors, FALSE, ev), LAMBDA sel :
        IF ~sel.ok THEN PoolErr(sel.err, sel.ev)
        ELSE PoolOk([idx \in DOMAIN elements |->
                       IF idx \in seq_set(sel.indices)
                       THEN [elements[idx] EXCEPT !.kept = TRUE]
                       ELSE IF ~keep_initialized
                       THEN [elements[idx] EXCEPT !.kept = FALSE]
                       ELSE elements[idx]],
                    sel.ev))

apply_set_drop(elements, operation, ev) ==
    Let(select_set_elements(elements, operation.selectors, TRUE, ev), LAMBDA sel :
        IF ~sel.ok THEN PoolErr(sel.err, sel.ev)
        ELSE PoolOk([idx \in DOMAIN elements |->
                       IF idx \in seq_set(sel.indices)
                       THEN [elements[idx] EXCEPT !.kept = FALSE]
                       ELSE elements[idx]],
                    sel.ev))

apply_set_unsupported(operation, ev) ==
    PoolErr("Set operation " \o operation.operator \o " is not supported for sets",
            ev)

apply_set_operations_loop(elements, operations, i, keep_initialized, ev) ==
    IF i > Len(operations) THEN PoolOk(elements, ev)
    ELSE Let(CASE operations[i].operator = "Keep" ->
                    apply_set_keep(elements, operations[i], keep_initialized, ev)
               [] operations[i].operator = "Drop" ->
                    apply_set_drop(elements, operations[i], ev)
               [] OTHER -> apply_set_unsupported(operations[i], ev),
             LAMBDA r :
               IF ~r.ok THEN r
               ELSE apply_set_operations_loop(
                      r.dice, operations, i + 1,
                      keep_initialized \/ operations[i].operator = "Keep", r.ev))

apply_set_operations(elements, operations, ev) ==
    apply_set_operations_loop(elements, operations, 1, FALSE, ev)

(***************************************************************************)
(* The tree walk                                                           *)
(***************************************************************************)
\* The values (dice) or sub-totals (set elements) of the kept members.
kept_values(vals, kept) ==
    LET idx == filter_indices(kept) IN [j \in DOMAIN idx |-> vals[idx[j]]]

\* `let quantity_value = match quantity { ... }`
dice_quantity(quantity, ev) ==
    IF quantity = None THEN [ok |-> TRUE, err |-> "", n |-> 1, ev |-> ev]
    ELSE Let(eval(quantity, ev), LAMBDA r :
             IF ~r.ok THEN [ok |-> FALSE, err |-> r.err, n |-> 0, ev |-> r.ev]
             ELSE Let(as_usize(r.total, "dice quantity"), LAMBDA c :
                      [ok |-> c.ok, err |-> c.err, n |-> c.n, ev |-> r.ev]))

\* `let (die_low, die_high) = match size { ... }`
dice_bounds(size, ev) ==
    IF size.kind = "Percent"
    THEN [ok |-> TRUE, err |-> "", low |-> 0, high |-> 9, ev |-> ev]
    ELSE Let(eval(size.inner, ev), LAMBDA r :
             IF ~r.ok
             THEN [ok |-> FALSE, err |-> r.err, low |-> 1, high |-> 0, ev |-> r.ev]
             ELSE Let(as_u32(r.total, "die size"), LAMBDA c :
                      [ok |-> c.ok, err |-> c.err, low |-> 1, high |-> c.n, ev |-> r.ev]))

\* A variant of the end of eval_dice that sums every die, kept or not.
finish_dice_sum_all(dice, quantity_value, die_high, operations, ev) ==
    Let([i \in DOMAIN dice |-> refresh_drop_state(dice[i])], LAMBDA final :
        OkResult(FSum(values_of(final)),
                 [type |-> "Dice", quantity |-> quantity_value, size |-> die_high,
                  dice |-> final, operations |-> operations],
                 ev))

\* The end of eval_dice: refresh_drop_state, the total, the DiceRoll.
finish_dice(dice, quantity_value, die_high, operations, ev) ==
    Let([i \in DOMAIN dice |-> refresh_drop_state(dice[i])], LAMBDA final :
        OkResult(FSum(kept_values(values_of(final),
                                  [i \in DOMAIN final |-> final[i].kept])),
                 [type |-> "Dice", quantity |-> quantity_value, size |-> die_high,
                  dice |-> final, operations |-> operations],
                 ev))

eval_dice(quantity, size, operations, ev) ==
    Let(dice_quantity(quantity, ev), LAMBDA q :
    IF ~q.ok THEN Err(q.err, q.ev)
    ELSE Let(dice_bounds(size, q.ev), LAMBDA b :
    IF ~b.ok THEN Err(b.err, b.ev)
    ELSE IF b.high = 0 THEN Err("Die size must be positive", b.ev)
    ELSE IF b.low > b.high THEN Err("Invalid die size", b.ev)
    ELSE Let(roll_new_dice(<<>>, q.n, "Original", Uniform(b.low, b.high), size, b.ev),
             LAMBDA rolled :
    IF ~rolled.ok THEN Err(rolled.err, rolled.ev)
    ELSE Let(apply_dice_operations(rolled.dice, Uniform(b.low, b.high), operations,
                                   size, rolled.ev),
             LAMBDA applied :
    IF ~applied.ok THEN Err(applied.err, applied.ev)
    ELSE finish_dice(applied.dice, q.n, b.high, operations, applied.ev)))))

\* `for element in elements { self.eval(element)?; push(SetElement {..}) }`
eval_elements(elements, i, acc, ev) ==
    IF i > Len(elements) THEN PoolOk(acc, ev)
    ELSE Let(eval(elements[i], ev), LAMBDA r :
             IF ~r.ok THEN PoolErr(r.err, r.ev)
             ELSE eval_elements(elements, i + 1,
                                Append(acc, [value |-> EvalResult(r), kept |-> TRUE,
                                             dropped |-> FALSE]),
                                r.ev))

eval_set(elements, operations, ev) ==
    Let(eval_elements(elements, 1, <<>>, ev), LAMBDA evaluated :
    IF ~evaluated.ok THEN Err(evaluated.err, evaluated.ev)
    ELSE Let(apply_set_operations(evaluated.dice, operations, evaluated.ev),
             LAMBDA applied :
    IF ~applied.ok THEN Err(applied.err, applied.ev)
    ELSE Let([i \in DOMAIN applied.dice |-> refresh_drop_state(applied.dice[i])],
             LAMBDA final :
    OkResult(FSum(kept_values(totals_of(final), [i \in DOMAIN final |-> final[i].kept])),
             [type |-> "Set", elements |-> final, operations |-> operations],
             applied.ev))))

\* A variant of the Binary arm in which a zero divisor of `//` yields 0.
binary_total_guarded(operator, l, r) ==
    CASE operator = "Add" -> FAdd(l, r)
      [] operator = "Subtract" -> FSub(l, r)
      [] operator = "Multiply" -> FMul(l, r)
      [] operator = "Divide" -> FDiv(l, r)
      [] operator = "IntDivide" -> IF FEq(r, Lit(0)) THEN Lit(0) ELSE FTrunc(FDiv(l, r))
      [] operator = "Modulo" -> FRem(l, r)
      [] operator = "Equal" -> BoolToF64(FEq(l, r))
      [] operator = "NotEqual" -> BoolToF64(FNe(l, r))
      [] operator = "Greater" -> BoolToF64(FGt(l, r))
      [] operator = "GreaterEqual" -> BoolToF64(FGe(l, r))
      [] operator = "Less" -> BoolToF64(FLt(l, r))
      [] operator = "LessEqual" -> BoolToF64(FLe(l, r))

\* A variant of the Binary arm in which `//` rounds the quotient down.
binary_total_flooring(operator, l, r) ==
    CASE operator = "Add" -> FAdd(l, r)
      [] operator = "Subtract" -> FSub(l, r)
      [] operator = "Multiply" -> FMul(l, r)
      [] operator = "Divide" -> FDiv(l, r)
      [] operator = "IntDivide" ->
           IF IsFinite(FDiv(l, r)) THEN Lit(FDiv(l, r).n \div FDiv(l, r).d)
           ELSE FDiv(l, r)
      [] operator = "Modulo" -> FRem(l, r)
      [] operator = "Equal" -> BoolToF64(FEq(l, r))
      [] operator = "NotEqual" -> BoolToF64(FNe(l, r))
      [] operator = "Greater" -> BoolToF64(FGt(l, r))
      [] operator = "GreaterEqual" -> BoolToF64(FGe(l, r))
      [] operator = "Less" -> BoolToF64(FLt(l, r))
      [] operator = "LessEqual" -> BoolToF64(FLe(l, r))

\* The `let total = match operator { ... }` of the Binary arm.
binary_total(operator, l, r) ==
    CASE operator = "Add" -> FAdd(l, r)
      [] operator = "Subtract" -> FSub(l, r)
      [] operator = "Multiply" -> FMul(l, r)
      [] operator = "Divide" -> FDiv(l, r)
      [] operator = "IntDivide" -> FTrunc(FDiv(l, r))
      [] operator = "Modulo" -> FRem(l, r)
      [] operator = "Equal" -> BoolToF64(FEq(l, r))
      [] operator = "NotEqual" -> BoolToF64(FNe(l, r))
      [] operator = "Greater" -> BoolToF64(FGt(l, r))
      [] operator = "GreaterEqual" -> BoolToF64(FGe(l, r))
      [] operator = "Less" -> BoolToF64(FLt(l, r))
      [] operator = "LessEqual" -> BoolToF64(FLe(l, r))

eval_literal(node, ev) ==
    OkResult(node.value, [type |-> "Literal", value |-> node.value], ev)

eval_unary(node, ev) ==
    Let(eval(node.operand, ev), LAMBDA evaluated :
        IF ~evaluated.ok THEN evaluated
        ELSE OkResult(IF node.operator = "Plus" THEN evaluated.total
                      ELSE FNeg(evaluated.total),
                      [type |-> "Unary", operator |-> node.operator,
                       operand |-> EvalResult(evaluated)],
                      evaluated.ev))

eval_binary(node, ev) ==
    Let(eval(node.left, ev), LAMBDA left_eval :
    IF ~left_eval.ok THEN left_eval
    ELSE Let(eval(node.right, left_eval.ev), LAMBDA right_eval :
    IF ~right_eval.ok THEN right_eval
    ELSE OkResult(binary_total(node.operator, left_eval.total, right_eval.total),
                  [type |-> "Binary", operator |-> node.operator,
                   left |-> EvalResult(left_eval),
                   right |-> EvalResult(right_eval)],
                  right_eval.ev)))

eval_dice_with_ops(node, ev) ==
    IF node.dice.type = "Dice"
    THEN eval_dice(node.dice.num, node.dice.size, node.operations, ev)
    ELSE Err("DiceWithOps must contain a dice node", ev)

\* A variant of the Annotated arm that evaluates the expression twice and
\* keeps the second result.
eval_annotated_twice(node, ev) ==
    Let(eval(node.expr, ev), LAMBDA first :
    IF ~first.ok THEN first
    ELSE Let(eval(node.expr, first.ev), LAMBDA evaluated :
    IF ~evaluated.ok THEN evaluated
    ELSE OkResult(evaluated.total,
                  [type |-> "Annotated", expr |-> EvalResult(evaluated),
                   annotations |-> node.annotations],
                  evaluated.ev)))

\* The Annotated arm.
eval_annotated(node, ev) ==
    Let(eval(node.expr, ev), LAMBDA evaluated :
        IF ~evaluated.ok THEN evaluated
        ELSE OkResult(evaluated.total,
                      [type |-> "Annotated", expr |-> EvalResult(evaluated),
                       annotations |-> node.annotations],
                      evaluated.ev))

eval(node, ev) ==
    CASE node.type = "Literal" -> eval_literal(node, ev)
      [] node.type = "Unary" -> eval_unary(node, ev)
      [] node.type = "Binary" -> eval_binary(node, ev)
      [] node.type = "Dice" -> eval_dice(node.num, node.size, <<>>, ev)
      [] node.type = "DiceWithOps" -> eval_dice_with_ops(node, ev)
      [] node.type = "Set" -> eval_set(node.elements, node.operations, ev)
      [] node.type = "Annotated" -> eval_annotated(node, ev)

\* A variant of evaluate_with_rng whose roll counter starts at the number of
\* values the source has yielded so far, earlier calls included.
evaluate_with_rng_carrying(expr, config, rng) ==
    eval(expr, Evaluator(rng, config, rng.pos))

\* evaluate_with_rng: a fresh Evaluator with rolls = 0 walks the tree.
evaluate_with_rng(expr, config, rng) == eval(expr, Evaluator(rng, config, 0))

(***************************************************************************)
(* Tokens and the lexer (src/src/lexer.rs)                                 *)
(*                                                                         *)
(* The input text is a sequence of characters, each a one-character        *)
(* string.  A Lexer is the record {chars, pos, annotation_mode}; every     *)
(* method that takes &mut self returns the lexer it leaves.                *)
(***************************************************************************)
\* RollatoriumError::Lexer(message) and RollatoriumError::Parser(message);
\* the message is the fixed text of the format string.
LexerError(message) == [kind |-> "Lexer", message |-> message]

ParserError(message) == [kind |-> "Parser", message |-> message]

NoError == [kind |-> "", message |-> ""]

\* Token::<type>: a token without payload.
Token(type) == [type |-> type, value |-> Lit(0), text |-> <<>>]

\* Token::Number(value)
Number(value) == [type |-> "Number", value |-> value, text |-> <<>>]

\* Token::AnnotationText(text)
AnnotationText(text) == [type |-> "AnnotationText", value |-> Lit(0), text |-> text]

\* Ok(token) and Err(error) of a lexer method
TokenOk(token, lexer) ==
    [ok |-> TRUE, err |-> NoError, token |-> token, lexer |-> lexer]

TokenErr(error, lexer) ==
    [ok |-> FALSE, err |-> error, token |-> Token("Eof"), lexer |-> lexer]

\* what unwrap_or(&'\0') yields past the end of the input
NUL == "\\0"

Lexer_new(input) == [chars |-> input, pos |-> 0, annotation_mode |-> FALSE]

is_at_end(lexer) == lexer.pos >= Len(lexer.chars)

peek_offset(lexer, offset) ==
    IF lexer.pos + offset < Len(lexer.chars)
    THEN lexer.chars[lexer.pos + offset + 1]
    ELSE NUL

peek(lexer) == peek_offset(lexer, 0)

\* Lexer::advance
lexer_advance(lexer) ==
    IF lexer.pos < Len(lexer.chars) THEN [lexer EXCEPT !.pos = @ + 1] ELSE lexer

RECURSIVE advance_by(_, _)
advance_by(lexer, count) ==
    IF count = 0 THEN lexer ELSE advance_by(lexer_advance(lexer), count - 1)

\* char::is_whitespace, for the white space the inputs use
is_whitespace(c) == c \in {" ", "\t", "\n"}

\* char::is_ascii_digit
is_ascii_digit(c) == c \in {"0", "1", "2", "3", "4", "5", "6", "7", "8", "9"}

RECURSIVE skip_ws(_)
skip_ws(lexer) ==
    IF ~is_at_end(lexer) /\ is_whitespace(peek(lexer))
    THEN skip_ws(lexer_advance(lexer))
    ELSE lexer

starts_with(lexer, pattern) ==
    \A idx \in DOMAIN pattern : peek_offset(lexer, idx - 1) = pattern[idx]

\* the value of a decimal digit
to_digit(c) ==
    CASE c = "0" -> 0 [] c = "1" -> 1 [] c = "2" -> 2 [] c = "3" -> 3
      [] c = "4" -> 4 [] c = "5" -> 5 [] c = "6" -> 6 [] c = "7" -> 7
      [] c = "8" -> 8 [] c = "9" -> 9

\* num_str.parse::<f64>() on digits with at most one dot: the digits read
\* as one integer n, over d = 10^(number of digits after the dot).
RECURSIVE parse_f64_from(_, _, _, _, _)
parse_f64_from(num_str, i, n, d, seen_dot) ==
    IF i > Len(num_str) THEN Fin(n, d)
    ELSE IF num_str[i] = "." THEN parse_f64_from(num_str, i + 1, n, d, TRUE)
    ELSE parse_f64_from(num_str, i + 1, 10 * n + to_digit(num_str[i]),
                        IF seen_dot THEN 10 * d ELSE d, seen_dot)

parse_f64(num_str) == parse_f64_from(num_str, 1, 0, 1, FALSE)

\* The while loop of Lexer::number and what follows it.
RECURSIVE number_loop(_, _, _, _)
number_loop(lexer, start, seen_digit, seen_dot) ==
    IF ~is_at_end(lexer) /\ is_ascii_digit(peek(lexer))
    THEN number_loop(lexer_advance(lexer), start, TRUE, seen_dot)
    ELSE IF ~is_at_end(lexer) /\ peek(lexer) = "." /\ ~seen_dot
    THEN IF ~is_ascii_digit(peek_offset(lexer, 1))
         THEN TokenErr(LexerError("Invalid decimal literal"), lexer)
         ELSE number_loop(lexer_advance(lexer), start, seen_digit, TRUE)
    ELSE IF ~seen_digit
    THEN TokenErr(LexerError("Number literal missing digits"), lexer)
    ELSE TokenOk(Number(parse_f64(SubSeq(lexer.chars, start + 1, lexer.pos))), lexer)

\* Lexer::number
number(lexer) == number_loop(lexer, lexer.pos, FALSE, FALSE)

\* str::trim
RECURSIVE trim_start(_)
trim_start(text) ==
    IF text # <<>> /\ is_whitespace(Head(text)) THEN trim_start(Tail(text)) ELSE text

RECURSIVE trim_end(_)
trim_end(text) ==
    IF text # <<>> /\ is_whitespace(text[Len(text)])
    THEN trim_end(SubSeq(text, 1, Len(text) - 1))
    ELSE text

trim(text) == trim_end(trim_start(text))

\* The scan of next_token in annotation mode: up to the next ']'.
RECURSIVE scan_annotation(_)
scan_annotation(lexer) ==
    IF ~is_at_end(lexer) /\ peek(lexer) # "]"
    THEN scan_annotation(lexer_advance(lexer))
    ELSE lexer

\* A variant of the annotation scan that takes the rest of the input for the
\* text when no ']' closes it.
annotation_text_to_end(lexer) ==
    Let(scan_annotation(lexer), LAMBDA scanned :
        TokenOk(AnnotationText(trim(SubSeq(lexer.chars, lexer.pos + 1, scanned.pos))),
                [scanned EXCEPT !.annotation_mode = FALSE]))

\* A variant of the annotation scan that hands out the text and stays in
\* annotation mode.
annotation_text_staying(lexer) ==
    Let(scan_annotation(lexer), LAMBDA scanned :
        IF is_at_end(scanned)
        THEN TokenErr(LexerError("Unterminated annotation; missing closing ']'"), scanned)
        ELSE TokenOk(AnnotationText(trim(SubSeq(lexer.chars, lexer.pos + 1, scanned.pos))),
                     scanned))

\* next_token in annotation mode, the input not at its end
annotation_text(lexer) ==
    Let(scan_annotation(lexer), LAMBDA scanned :
        IF is_at_end(scanned)
        THEN TokenErr(LexerError("Unterminated annotation; missing closing ']'"), scanned)
        ELSE TokenOk(AnnotationText(trim(SubSeq(lexer.chars, lexer.pos + 1, scanned.pos))),
                     [scanned EXCEPT !.annotation_mode = FALSE]))

\* The two-character tokens of next_token, in the order it tries them.
TwoCharTokens ==
    <<[pattern |-> <<"/", "/">>, type |-> "DoubleSlash"],
      [pattern |-> <<"=", "=">>, type |-> "EqualEqual"],
      [pattern |-> <<"!", "=">>, type |-> "NotEqual"],
      [pattern |-> <<">", "=">>, type |-> "GreaterEqual"],
      [pattern |-> <<"<", "=">>, type |-> "LessEqual"],
      [pattern |-> <<"r", "r">>, type |-> "Reroll"],
      [pattern |-> <<"r", "o">>, type |-> "RerollOnce"],
      [pattern |-> <<"r", "a">>, type |-> "RerollAdd"],
      [pattern |-> <<"m", "i">>, type |-> "Min"],
      [pattern |-> <<"m", "a">>, type |-> "Max"],
      [pattern |-> <<"d", "%">>, type |-> "DicePercent"]>>

\* The one-character tokens of the match in next_token.
OneCharTokens ==
    ("+" :> "Plus") @@ ("-" :> "Minus") @@ ("*" :> "Star") @@ ("/" :> "Slash")
    @@ ("%" :> "Percent") @@ (">" :> "Greater") @@ ("<" :> "Less")
    @@ ("(" :> "LParen") @@ (")" :> "RParen") @@ ("{" :> "SetStart")
    @@ ("}" :> "SetEnd") @@ ("[" :> "AnnotationStart") @@ ("]" :> "AnnotationEnd")
    @@ ("," :> "Comma") @@ ("d" :> "Dice") @@ ("k" :> "Keep") @@ ("p" :> "Drop")
    @@ ("e" :> "Explode") @@ ("!" :> "Explode") @@ ("h" :> "SelectorHigh")
    @@ ("l" :> "SelectorLow")

\* The first two-character token the input starts with, 0 if none.
RECURSIVE two_char_from(_, _)
two_char_from(lexer, i) ==
    IF i > Len(TwoCharTokens) THEN 0
    ELSE IF starts_with(lexer, TwoCharTokens[i].pattern) THEN i
    ELSE two_char_from(lexer, i + 1)

\* A variant of the match in next_token under which '[' does not switch the
\* lexer to annotation mode.
one_char_token_plain(lexer) ==
    Let(peek(lexer), LAMBDA c :
        IF c \in DOMAIN OneCharTokens
        THEN TokenOk(Token(OneCharTokens[c]), lexer_advance(lexer))
        ELSE IF c = "="
        THEN TokenErr(LexerError("Unexpected '='. Did you mean '=='?"), lexer)
        ELSE IF is_ascii_digit(c) \/ (c = "." /\ is_ascii_digit(peek_offset(lexer, 1)))
        THEN number(lexer)
        ELSE TokenErr(LexerError("Unexpected character"), lexer))

\* The match on the current character at the end of next_token.
one_char_token(lexer) ==
    Let(peek(lexer), LAMBDA c :
        IF c \in DOMAIN OneCharTokens
        THEN TokenOk(Token(OneCharTokens[c]),
                     [lexer_advance(lexer) EXCEPT !.annotation_mode = IF c = "[" THEN TRUE ELSE @])
        ELSE IF c = "="
        THEN TokenErr(LexerError("Unexpected '='. Did you mean '=='?"), lexer)
        ELSE IF is_ascii_digit(c) \/ (c = "." /\ is_ascii_digit(peek_offset(lexer, 1)))
        THEN number(lexer)
        ELSE TokenErr(LexerError("Unexpected character"), lexer))

\* Lexer::next_token
next_token(lexer) ==
    Let(IF lexer.annotation_mode THEN lexer ELSE skip_ws(lexer), LAMBDA at :
        IF is_at_end(at) THEN TokenOk(Token("Eof"), at)
        ELSE IF at.annotation_mode THEN annotation_text(at)
        ELSE Let(two_char_from(at, 1), LAMBDA i :
            IF i > 0
            THEN TokenOk(Token(TwoCharTokens[i].type), advance_by(at, 2))
            ELSE one_char_token(at)))

(***************************************************************************)
(* The parser (src/src/parser.rs)                                          *)
(*                                                                         *)
(* A Parser is the record {lexer, cur_token, selector_depth}; its input    *)
(* field serves error messages only and is left out.  Every method returns *)
(* a result that holds the parser it leaves; the node of a result is a     *)
(* syntax tree, or a list for the methods that return a Vec.               *)
(***************************************************************************)
\* Ok(node) and Err(error) of a parser method
NodeOk(node, parser) ==
    [ok |-> TRUE, err |-> NoError, node |-> node, parser |-> parser]

NodeErr(error, parser) ==
    [ok |-> FALSE, err |-> error, node |-> None, parser |-> parser]

\* Parser::new: the first token is read at construction.
Parser_new(input) ==
    Let(next_token(Lexer_new(input)), LAMBDA first :
        IF first.ok
        THEN NodeOk(None, [lexer |-> first.lexer, cur_token |-> first.token,
                           selector_depth |-> 0])
        ELSE NodeErr(first.err, [lexer |-> first.lexer, cur_token |-> Token("Eof"),
                                 selector_depth |-> 0]))

\* Parser::eat: expected is the discriminant of the expected token.
eat(parser, expected) ==
    IF parser.cur_token.type = expected
    THEN Let(next_token(parser.lexer), LAMBDA next :
             IF next.ok
             THEN NodeOk(None, [parser EXCEPT !.lexer = next.lexer,
                                              !.cur_token = next.token])
             ELSE NodeErr(next.err, [parser EXCEPT !.lexer = next.lexer]))
    ELSE NodeErr(ParserError("Expected"), parser)

\* The operator matches of the three binary layers.
ComparisonOperator ==
    ("EqualEqual" :> "Equal") @@ ("NotEqual" :> "NotEqual")
    @@ ("Greater" :> "Greater") @@ ("GreaterEqual" :> "GreaterEqual")
    @@ ("Less" :> "Less") @@ ("LessEqual" :> "LessEqual")

AdditiveOperator == ("Plus" :> "Add") @@ ("Minus" :> "Subtract")

MultiplicativeOperator ==
    ("Star" :> "Multiply") @@ ("Slash" :> "Divide")
    @@ ("DoubleSlash" :> "IntDivide") @@ ("Percent" :> "Modulo")

\* The keyword match of parse_modifiers.
ModifierOperator ==
    ("Keep" :> "Keep") @@ ("Drop" :> "Drop") @@ ("Reroll" :> "Reroll")
    @@ ("RerollOnce" :> "RerollOnce") @@ ("RerollAdd" :> "RerollAdd")
    @@ ("Explode" :> "Explode") @@ ("Min" :> "Minimum") @@ ("Max" :> "Maximum")

\* The prefix match of parse_selector.
SelectorPrefix ==
    ("SelectorHigh" :> "Highest") @@ ("SelectorLow" :> "Lowest")
    @@ ("Greater" :> "GreaterThan") @@ ("GreaterEqual" :> "GreaterThanOrEqual")
    @@ ("Less" :> "LessThan") @@ ("LessEqual" :> "LessThanOrEqual")
    @@ ("EqualEqual" :> "EqualTo") @@ ("NotEqual" :> "NotEqual")

selector_value_starts(token) ==
    token.type \in {"Plus", "Minus", "Number", "LParen", "Dice", "DicePercent"}

is_selector_start(token) ==
    token.type \in {"SelectorHigh", "SelectorLow", "Greater", "GreaterEqual", "Less",
                    "LessEqual", "EqualEqual", "NotEqual", "Plus", "Minus", "Number",
                    "LParen", "Dice", "DicePercent"}

RECURSIVE parse_comparison(_), parse_comparison_loop(_, _), parse_additive(_),
          parse_additive_loop(_, _), parse_multiplicative(_),
          parse_multiplicative_loop(_, _), parse_unary(_), parse_postfix(_),
          parse_atom(_), parse_parenthesized_or_set(_), parse_elements(_, _, _),
          parse_modifiers(_, _), parse_modifiers_loop(_, _), parse_selector_list(_),
          parse_annotations(_, _), parse_annotations_loop(_, _),
          parse_selectors(_, _), parse_selector(_), parse_selector_value_inner(_)

\* Parser::parse_dice_literal; quantity is None or a Literal node.
parse_dice_literal(parser, quantity) ==
    IF parser.cur_token.type = "Dice"
    THEN Let(eat(parser, "Dice"), LAMBDA eaten :
         IF ~eaten.ok THEN eaten
         ELSE IF eaten.parser.cur_token.type # "Number"
         THEN NodeErr(ParserError("Expected die size after 'd'"), eaten.parser)
         ELSE Let(eat(eaten.parser, "Number"), LAMBDA sized :
              IF ~sized.ok THEN sized
              ELSE NodeOk(Dice(quantity,
                               SizeValue(Literal(eaten.parser.cur_token.value))),
                          sized.parser)))
    ELSE IF parser.cur_token.type = "DicePercent"
    THEN Let(eat(parser, "DicePercent"), LAMBDA eaten :
         IF ~eaten.ok THEN eaten
         ELSE NodeOk(Dice(quantity, Percent), eaten.parser))
    ELSE NodeErr(ParserError("Invalid dice expression"), parser)

\* The Token::Number arm shared by parse_atom and parse_selector_value_inner.
parse_number(parser) ==
    Let(eat(parser, "Number"), LAMBDA eaten :
        IF ~eaten.ok THEN eaten
        ELSE IF eaten.parser.cur_token.type \in {"Dice", "DicePercent"}
        THEN parse_dice_literal(eaten.parser, Literal(parser.cur_token.value))
        ELSE NodeOk(Literal(parser.cur_token.value), eaten.parser))

\* The loop of parse_comparison: node is the tree folded so far.
parse_comparison_loop(parser, node) ==
    IF parser.cur_token.type \notin DOMAIN ComparisonOperator
    THEN NodeOk(node, parser)
    ELSE Let(eat(parser, parser.cur_token.type), LAMBDA eaten :
         IF ~eaten.ok THEN eaten
         ELSE Let(parse_additive(eaten.parser), LAMBDA right :
              IF ~right.ok THEN right
              ELSE parse_comparison_loop(
                       right.parser,
                       Binary(ComparisonOperator[parser.cur_token.type], node,
                              right.node))))

parse_comparison(parser) ==
    Let(parse_additive(parser), LAMBDA first :
        IF ~first.ok THEN first
        ELSE parse_comparison_loop(first.parser, first.node))

\* The loop of parse_additive.
parse_additive_loop(parser, node) ==
    IF parser.cur_token.type \notin DOMAIN AdditiveOperator
    THEN NodeOk(node, parser)
    ELSE Let(eat(parser, parser.cur_token.type), LAMBDA eaten :
         IF ~eaten.ok THEN eaten
         ELSE Let(parse_multiplicative(eaten.parser), LAMBDA right :
              IF ~right.ok THEN right
              ELSE parse_additive_loop(
                       right.parser,
                       Binary(AdditiveOperator[parser.cur_token.type], node,
                              right.node))))

parse_additive(parser) ==
    Let(parse_multiplicative(parser), LAMBDA first :
        IF ~first.ok THEN first
        ELSE parse_additive_loop(first.parser, first.node))

\* A variant of the loop of parse_multiplicative that takes everything to the
\* right of an operator as its right operand.
parse_multiplicative_loop_right(parser, node) ==
    IF parser.cur_token.type \notin DOMAIN MultiplicativeOperator
    THEN NodeOk(node, parser)
    ELSE Let(eat(parser, parser.cur_token.type), LAMBDA eaten :
         IF ~eaten.ok THEN eaten
         ELSE Let(parse_multiplicative(eaten.parser), LAMBDA right :
              IF ~right.ok THEN right
              ELSE NodeOk(Binary(MultiplicativeOperator[parser.cur_token.type], node,
                                 right.node),
                          right.parser)))

\* The loop of parse_multiplicative.
parse_multiplicative_loop(parser, node) ==
    IF parser.cur_token.type \notin DOMAIN MultiplicativeOperator
    THEN NodeOk(node, parser)
    ELSE Let(eat(parser, parser.cur_token.type), LAMBDA eaten :
         IF ~eaten.ok THEN eaten
         ELSE Let(parse_unary(eaten.parser), LAMBDA right :
              IF ~right.ok THEN right
              ELSE parse_multiplicative_loop(
                       right.parser,
                       Binary(MultiplicativeOperator[parser.cur_token.type], node,
                              right.node))))

parse_multiplicative(parser) ==
    Let(parse_unary(parser), LAMBDA first :
        IF ~first.ok THEN first
        ELSE parse_multiplicative_loop(first.parser, first.node))

parse_unary(parser) ==
    IF parser.cur_token.type \in {"Plus", "Minus"}
    THEN Let(eat(parser, parser.cur_token.type), LAMBDA eaten :
         IF ~eaten.ok THEN eaten
         ELSE Let(parse_unary(eaten.parser), LAMBDA operand :
              IF ~operand.ok THEN operand
              ELSE NodeOk(Unary(parser.cur_token.type, operand.node),
                          operand.parser)))
    ELSE parse_postfix(parser)

parse_atom(parser) ==
    CASE parser.cur_token.type = "Number" -> parse_number(parser)
      [] parser.cur_token.type \in {"Dice", "DicePercent"} ->
            parse_dice_literal(parser, None)
      [] parser.cur_token.type = "LParen" -> parse_parenthesized_or_set(parser)
      [] parser.cur_token.type = "AnnotationStart" ->
            NodeErr(ParserError("Unexpected annotation start"), parser)
      [] OTHER -> NodeErr(ParserError("Unexpected token"), parser)

\* A variant of the end of parse_parenthesized_or_set that makes a set only
\* of what was written with a comma.
parse_elements_end_by_comma(parser, elements, is_set) ==
    Let(eat(parser, "RParen"), LAMBDA closed :
        IF ~closed.ok THEN closed
        ELSE IF is_set
        THEN NodeOk(SetNode(elements, <<>>), closed.parser)
        ELSE NodeOk(elements[1], closed.parser))

\* The end of parse_parenthesized_or_set: the closing parenthesis and the
\* choice between a set and the grouped expression.
parse_elements_end(parser, elements, is_set) ==
    Let(eat(parser, "RParen"), LAMBDA closed :
        IF ~closed.ok THEN closed
        ELSE IF \/ is_set
                \/ /\ closed.parser.cur_token.type \in
                          {"Keep", "Drop", "Reroll", "RerollOnce", "RerollAdd",
                           "Explode", "Min", "Max"}
                   /\ elements[1].type \notin {"Dice", "DiceWithOps"}
        THEN NodeOk(SetNode(elements, <<>>), closed.parser)
        ELSE NodeOk(elements[1], closed.parser))

\* The while loop of parse_parenthesized_or_set.
parse_elements(parser, elements, is_set) ==
    IF parser.cur_token.type = "Comma"
    THEN Let(eat(parser, "Comma"), LAMBDA eaten :
         IF ~eaten.ok THEN eaten
         ELSE IF eaten.parser.cur_token.type = "RParen"
         THEN parse_elements_end(eaten.parser, elements, TRUE)
         ELSE Let(parse_comparison(eaten.parser), LAMBDA element :
              IF ~element.ok THEN element
              ELSE parse_elements(element.parser, Append(elements, element.node),
                                  TRUE)))
    ELSE parse_elements_end(parser, elements, is_set)

parse_parenthesized_or_set(parser) ==
    Let(eat(parser, "LParen"), LAMBDA opened :
        IF ~opened.ok THEN opened
        ELSE IF opened.parser.cur_token.type = "RParen"
        THEN Let(eat(opened.parser, "RParen"), LAMBDA closed :
             IF ~closed.ok THEN closed
             ELSE NodeOk(SetNode(<<>>, <<>>), closed.parser))
        ELSE Let(parse_comparison(opened.parser), LAMBDA first :
             IF ~first.ok THEN first
             ELSE parse_elements(first.parser, <<first.node>>, FALSE)))

\* A variant of with_selector_context that leaves the depth as it is when
\* the target fails.
with_selector_context_leaving(parser) ==
    Let(parse_selector_value_inner([parser EXCEPT !.selector_depth = @ + 1]),
        LAMBDA result :
            IF result.ok THEN [result EXCEPT !.parser.selector_depth = @ - 1]
            ELSE result)

\* Parser::with_selector_context around parse_selector_value_inner, the one
\* closure it is called with.
with_selector_context(parser) ==
    Let(parse_selector_value_inner([parser EXCEPT !.selector_depth = @ + 1]),
        LAMBDA result : [result EXCEPT !.parser.selector_depth = @ - 1])

parse_selector_value_inner(parser) ==
    CASE parser.cur_token.type \in {"Plus", "Minus"} ->
            Let(eat(parser, parser.cur_token.type), LAMBDA eaten :
                IF ~eaten.ok THEN eaten
                ELSE Let(parse_selector_value_inner(eaten.parser), LAMBDA operand :
                     IF ~operand.ok THEN operand
                     ELSE NodeOk(Unary(parser.cur_token.type, operand.node),
                                 operand.parser)))
      [] parser.cur_token.type = "Number" -> parse_number(parser)
      [] parser.cur_token.type \in {"Dice", "DicePercent"} ->
            parse_dice_literal(parser, None)
      [] parser.cur_token.type = "LParen" ->
            Let(eat(parser, "LParen"), LAMBDA opened :
                IF ~opened.ok THEN opened
                ELSE IF opened.parser.cur_token.type = "RParen"
                THEN NodeErr(ParserError("Empty parentheses are not valid selector targets"),
                             opened.parser)
                ELSE Let(parse_comparison(opened.parser), LAMBDA expr :
                     IF ~expr.ok THEN expr
                     ELSE Let(eat(expr.parser, "RParen"), LAMBDA closed :
                          IF ~closed.ok THEN closed
                          ELSE NodeOk(expr.node, closed.parser))))
      [] OTHER -> NodeErr(ParserError("Invalid selector target"), parser)

parse_selector(parser) ==
    Let(IF parser.cur_token.type \in DOMAIN SelectorPrefix
        THEN eat(parser, parser.cur_token.type)
        ELSE NodeOk(None, parser), LAMBDA eaten :
        IF ~eaten.ok THEN eaten
        ELSE IF ~selector_value_starts(eaten.parser.cur_token)
        THEN NodeErr(ParserError("Expected selector target"), eaten.parser)
        ELSE Let(with_selector_context(eaten.parser), LAMBDA target :
             IF ~target.ok THEN target
             ELSE NodeOk(Selector(IF parser.cur_token.type \in DOMAIN SelectorPrefix
                                  THEN SelectorPrefix[parser.cur_token.type]
                                  ELSE "Literal",
                                  target.node),
                         target.parser)))

\* The while loop of parse_selector_list.
parse_selectors(parser, selectors) ==
    IF ~is_selector_start(parser.cur_token) THEN NodeOk(selectors, parser)
    ELSE Let(parse_selector(parser), LAMBDA selector :
         IF ~selector.ok THEN selector
         ELSE parse_selectors(selector.parser, Append(selectors, selector.node)))

\* A variant of parse_selector_list that accepts a modifier without a
\* selector.
parse_selector_list_optional(parser) == parse_selectors(parser, <<>>)

parse_selector_list(parser) ==
    IF ~is_selector_start(parser.cur_token)
    THEN NodeErr(ParserError("Expected selector"), parser)
    ELSE Let(parse_selectors(parser, <<>>), LAMBDA selectors :
         IF ~selectors.ok THEN selectors
         ELSE IF selectors.node = <<>>
         THEN NodeErr(ParserError("must be followed by at least one selector"),
                      selectors.parser)
         ELSE selectors)

\* The loop of parse_modifiers.
parse_modifiers_loop(parser, operations) ==
    IF parser.cur_token.type \notin DOMAIN ModifierOperator
    THEN NodeOk(operations, parser)
    ELSE Let(eat(parser, parser.cur_token.type), LAMBDA eaten :
         IF ~eaten.ok THEN eaten
         ELSE Let(parse_selector_list(eaten.parser), LAMBDA selectors :
              IF ~selectors.ok THEN selectors
              ELSE parse_modifiers_loop(
                       selectors.parser,
                       Append(operations,
                              SetOperation(ModifierOperator[parser.cur_token.type],
                                           selectors.node)))))

\* A variant of parse_modifiers under which the modifiers after a
\* parenthesis take the place of the ones the dice or set already has.
parse_modifiers_replacing(parser, node) ==
    IF parser.selector_depth > 0 THEN NodeOk(node, parser)
    ELSE Let(parse_modifiers_loop(parser, <<>>), LAMBDA operations :
         IF ~operations.ok THEN operations
         ELSE IF operations.node = <<>> THEN NodeOk(node, operations.parser)
         ELSE CASE node.type = "Dice" ->
                       NodeOk(DiceWithOps(node, operations.node), operations.parser)
                [] node.type = "DiceWithOps" ->
                       NodeOk(DiceWithOps(node.dice, operations.node),
                              operations.parser)
                [] node.type = "Set" ->
                       NodeOk(SetNode(node.elements, operations.node),
                              operations.parser)
                [] OTHER ->
                       NodeErr(ParserError("Set operations can only be applied to dice or sets"),
                               operations.parser))

parse_modifiers(parser, node) ==
    IF parser.selector_depth > 0 THEN NodeOk(node, parser)
    ELSE Let(parse_modifiers_loop(parser, <<>>), LAMBDA operations :
         IF ~operations.ok THEN operations
         ELSE IF operations.node = <<>> THEN NodeOk(node, operations.parser)
         ELSE CASE node.type = "Dice" ->
                       NodeOk(DiceWithOps(node, operations.node), operations.parser)
                [] node.type = "DiceWithOps" ->
                       NodeOk(DiceWithOps(node.dice,
                                          node.operations \o operations.node),
                              operations.parser)
                [] node.type = "Set" ->
                       NodeOk(SetNode(node.elements,
                                      node.operations \o operations.node),
                              operations.parser)
                [] OTHER ->
                       NodeErr(ParserError("Set operations can only be applied to dice or sets"),
                               operations.parser))

\* The while loop of parse_annotations; an annotation is its text.
parse_annotations_loop(parser, annotations) ==
    IF parser.cur_token.type # "AnnotationStart" THEN NodeOk(annotations, parser)
    ELSE Let(eat(parser, "AnnotationStart"), LAMBDA opened :
         IF ~opened.ok THEN opened
         ELSE IF opened.parser.cur_token.type # "AnnotationText"
         THEN NodeErr(ParserError("Expected annotation text"), opened.parser)
         ELSE Let(eat(opened.parser, "AnnotationText"), LAMBDA texted :
              IF ~texted.ok THEN texted
              ELSE IF texted.parser.cur_token.type # "AnnotationEnd"
              THEN NodeErr(ParserError("Unterminated annotation; expected closing ']'"),
                           texted.parser)
              ELSE Let(eat(texted.parser, "AnnotationEnd"), LAMBDA closed :
                   IF ~closed.ok THEN closed
                   ELSE parse_annotations_loop(
                            closed.parser,
                            Append(annotations, opened.parser.cur_token.text)))))

\* A variant of parse_annotations that wraps whatever node it is given.
parse_annotations_wrapping(parser, node) ==
    IF parser.selector_depth > 0 THEN NodeOk(node, parser)
    ELSE Let(parse_annotations_loop(parser, <<>>), LAMBDA annotations :
         IF ~annotations.ok THEN annotations
         ELSE IF annotations.node = <<>> THEN NodeOk(node, annotations.parser)
         ELSE NodeOk(Annotated(node, annotations.node), annotations.parser))

parse_annotations(parser, node) ==
    IF parser.selector_depth > 0 THEN NodeOk(node, parser)
    ELSE Let(parse_annotations_loop(parser, <<>>), LAMBDA annotations :
         IF ~annotations.ok THEN annotations
         ELSE IF annotations.node = <<>> THEN NodeOk(node, annotations.parser)
         ELSE IF node.type = "Annotated"
         THEN NodeOk(Annotated(node.expr, node.annotations \o annotations.node),
                     annotations.parser)
         ELSE NodeOk(Annotated(node, annotations.node), annotations.parser))

parse_postfix(parser) ==
    Let(parse_atom(parser), LAMBDA atom :
        IF ~atom.ok THEN atom
        ELSE Let(parse_modifiers(atom.parser, atom.node), LAMBDA modified :
             IF ~modified.ok THEN modified
             ELSE parse_annotations(modified.parser, modified.node)))

\* A variant of Parser::parse that returns the first comparison expression
\* whatever follows it.
parse_first_expression(parser) == parse_comparison(parser)

\* Parser::parse
parse(parser) ==
    Let(parse_comparison(parser), LAMBDA expr :
        IF ~expr.ok THEN expr
        ELSE IF expr.parser.cur_token.type # "Eof"
        THEN NodeErr(ParserError("Unexpected trailing input"), expr.parser)
        ELSE expr)

\* parse(input) of src/src/lib.rs: Parser::new, then Parser::parse.
parse_input(input) ==
    Let(Parser_new(input), LAMBDA new :
        IF ~new.ok THEN new ELSE parse(new.parser))

(***************************************************************************)
(* Bounds and the inputs drawn from them                                   *)
(***************************************************************************)
\* Dice quantities range over 0..MaxQuantity.
MaxQuantity == 2

\* Sized dice have 1..MaxFaces faces.
MaxFaces == 2

\* config.max_rolls ranges over 0..MaxRolls.
MaxRolls == 3

\* The randomness source yields a cycle of RngLen raw values.
RngLen == 3

\* Raw values of the randomness source: every face of every sized die in
\* the inputs can come up.
RawValues == 0..(MaxFaces - 1)

\* Streams that make the percentile die show its top digit 9, alone or
\* with one 0 among the values.
HighStreams ==
    {[i \in 1..RngLen |-> IF i = k THEN 0 ELSE 9] : k \in 0..RngLen}

RngStreams == [1..RngLen -> RawValues] \cup HighStreams

Configs == {EvalConfig(m) : m \in 0..MaxRolls}

Num(i) == Literal(Lit(i))

Half(i) == Literal(Fin(i, 2))

Sized(f) == SizeValue(Num(f))

Quantities == {None} \cup {Num(q) : q \in 0..(MaxQuantity + 1)}

Sizes == {Percent} \cup {Sized(f) : f \in 1..MaxFaces}

\* Dice nodes as the parser builds them: both operands number literals.
ValidDice == {Dice(q, f) : q \in Quantities, f \in Sizes}

\* A quantity that is negative or fractional, a face count that is zero,
\* negative or fractional.
BadQuantities == {Num(-1), Half(1), Half(3)}

BadSizes == {Sized(0), Sized(-1), SizeValue(Half(1)), SizeValue(Half(3))}

\* Literals within EPSILON of 1 and of 0 that are not integers:
\* 1.0000000005 and 0.0000000005.
NearOne == Literal(Fin(2 * EPSILON_DEN + 1, 2 * EPSILON_DEN))

NearZero == Literal(Fin(1, 2 * EPSILON_DEN))

NearIntegerDice ==
    {Dice(NearOne, Sized(MaxFaces)), Dice(NearOne, Percent), Dice(NearZero, Sized(MaxFaces)),
     Dice(Num(MaxQuantity), SizeValue(NearOne)), Dice(NearOne, SizeValue(NearOne)),
     Dice(Num(1), SizeValue(NearZero))}

InvalidDice ==
    {Dice(q, f) : q \in BadQuantities, f \in {Sized(MaxFaces), Percent} \cup BadSizes}
      \cup {Dice(q, f) : q \in {None, Num(0), Num(MaxQuantity)}, f \in BadSizes}

\* The pool the modifiers are tried on.
Pool == Dice(Num(MaxQuantity), Sized(MaxFaces))

\* Counts for Highest and Lowest, values for the comparisons.
Counts == {Num(c) : c \in 0..(MaxQuantity + 1)}

Thresholds == {Num(1), Num(MaxFaces), Num(MaxFaces + 1)}

Selectors ==
    {Selector(k, t) : k \in {"Highest", "Lowest"}, t \in Counts}
      \cup {Selector(k, t) : k \in SelectorKind \ {"Highest", "Lowest"},
                             t \in Thresholds}

ImplementedOperators ==
    {"Keep", "Drop", "Reroll", "RerollOnce", "RerollAdd", "Explode", "Minimum",
     "Maximum"}

ReservedOperators == SetOperator \ ImplementedOperators

SingleOps ==
    {<<SetOperation(o, <<sel>>)>> : o \in ImplementedOperators, sel \in Selectors}

\* A selector whose target rolls a die, one whose target is not positive,
\* one with a fractional target.
OddSelectors ==
    {Selector(k, t) : k \in {"Highest", "LessThan", "Literal"},
                      t \in {Dice(None, Sized(MaxFaces)), Num(0), Unary("Minus", Num(1)),
                             Half(1)}}

OddOps ==
    {<<SetOperation(o, <<sel>>)>> : o \in ImplementedOperators, sel \in OddSelectors}
      \cup {<<SetOperation(o, <<Selector("Literal", Num(1))>>)>> : o \in ReservedOperators}

\* Minimum and Maximum with a scope selector after the threshold.
ScopedOps ==
    {<<SetOperation(o, <<Selector(k, Num(t)), Selector("Highest", Num(1))>>)>> :
        o \in {"Minimum", "Maximum"}, k \in {"Literal", "Lowest"},
        t \in {0, MaxFaces}}

ChainSelectors == {Selector("Highest", Num(1)), Selector("Literal", Num(MaxFaces))}

ChainOps ==
    {SetOperation(o, <<sel>>) : o \in ImplementedOperators, sel \in ChainSelectors}

OpChains == {<<a, b>> : a \in ChainOps, b \in ChainOps}

\* Percentile and one-sided pools.
OtherPools ==
    {DiceWithOps(Dice(Num(q), Percent), <<SetOperation(o, <<sel>>)>>) :
        q \in {1, MaxQuantity}, o \in ImplementedOperators,
        sel \in {Selector("Literal", Num(0)), Selector("Highest", Num(1)),
                 Selector("GreaterThan", Num(0))}}
      \cup {DiceWithOps(Dice(Num(1), Sized(1)), <<SetOperation(o, <<sel>>)>>) :
              o \in ImplementedOperators,
              sel \in {Selector("Literal", Num(1)), Selector("Highest", Num(1))}}

\* NdS with the single modifier keep-highest K, 0 <= K <= N.
KeepHighestDice ==
    {DiceWithOps(Dice(Num(n), Sized(MaxFaces)),
                 <<SetOperation("Keep", <<Selector("Highest", Num(k))>>)>>) :
        n \in 0..(MaxQuantity + 1), k \in 0..(MaxQuantity + 1)}

\* A Keep with two selectors, alone and after a Drop.
TwoSelectorKeeps ==
    {SetOperation("Keep", <<Selector("Highest", Num(1)), Selector("Lowest", Num(1))>>),
     SetOperation("Keep", <<Selector("Literal", Num(1)), Selector("Literal", Num(MaxFaces))>>)}

UnionKeepDice ==
    {DiceWithOps(Dice(Num(n), Sized(MaxFaces)), ops) :
        n \in {MaxQuantity, MaxQuantity + 1},
        ops \in {<<k>> : k \in TwoSelectorKeeps}
                 \cup {<<SetOperation("Drop", <<Selector("Lowest", Num(1))>>), k>> :
                         k \in TwoSelectorKeeps}}

\* A Drop with two selectors, alone and after a Drop.
TwoSelectorDrops ==
    {SetOperation("Drop", <<Selector("Highest", Num(1)), Selector("Lowest", Num(1))>>),
     SetOperation("Drop", <<Selector("Literal", Num(1)), Selector("Highest", Num(1))>>)}

UnionDropDice ==
    {DiceWithOps(Dice(Num(MaxQuantity + 1), Sized(MaxFaces)), ops) :
        ops \in {<<p>> : p \in TwoSelectorDrops}
                 \cup {<<SetOperation("Drop", <<Selector("Lowest", Num(1))>>), p>> :
                         p \in TwoSelectorDrops}}

\* One die and the pool under a modifier that rolls: 1dS rr<S, 1dS eS and
\* the like, and two selectors of which the first matches no face.
LoopSelectors ==
    {<<Selector("LessThan", Num(MaxFaces))>>, <<Selector("Literal", Num(MaxFaces))>>,
     <<Selector("GreaterThan", Num(MaxFaces)), Selector("LessThan", Num(MaxFaces))>>}

LoopDice ==
    {DiceWithOps(Dice(Num(n), Sized(MaxFaces)), <<SetOperation(o, sels)>>) :
        n \in {1, MaxQuantity},
        o \in {"Reroll", "RerollOnce", "RerollAdd", "Explode"},
        sels \in LoopSelectors}

\* Minimum and Maximum without a scope, with one scope selector and with
\* two, on a pool of which a Drop may have removed a die.
Scopes ==
    {<<>>, <<Selector("Highest", Num(1))>>,
     <<Selector("Highest", Num(1)), Selector("Lowest", Num(1))>>}

ScopedClamps ==
    {SetOperation(o, <<Selector("Literal", Num(t))>> \o scope) :
        o \in {"Minimum", "Maximum"}, t \in {1, MaxFaces}, scope \in Scopes}

ScopedDice ==
    {DiceWithOps(Dice(Num(MaxQuantity + 1), Sized(MaxFaces)), before \o <<clamp>>) :
        before \in {<<>>, <<SetOperation("Drop", <<Selector("Lowest", Num(1))>>)>>,
                    <<SetOperation("Drop", <<Selector("Highest", Num(1))>>)>>},
        clamp \in ScopedClamps}

\* Keep and Drop of the highest and the lowest, with counts that are
\* integers, nearly an integer (1.0000000005), infinite (1/0), not a number
\* (0/0), negative and fractional, on members of which one may be not kept.
CountTargets ==
    {Num(1), Num(MaxQuantity), NearOne, Binary("Divide", Num(1), Num(0)),
     Binary("Divide", Num(0), Num(0)), Unary("Minus", Num(1)), Half(1)}

CountedOps ==
    {SetOperation(o, <<Selector(k, t)>>) :
        o \in {"Keep", "Drop"}, k \in {"Highest", "Lowest"}, t \in CountTargets}

CountedDice ==
    {DiceWithOps(Dice(Num(MaxQuantity + 1), Sized(MaxFaces)), before \o <<op>>) :
        before \in {<<>>, <<SetOperation("Drop", <<Selector("Lowest", Num(1))>>)>>},
        op \in CountedOps}

\* The pool under a Reroll of its highest or lowest dice, alone and after a
\* Drop or a Keep that may leave no die kept: 2d2rrh1, 2d2p2rrl2, ...
RerollCounts == CountTargets \cup {Num(0), Num(MaxQuantity + 1), Half(3)}

CountedRerolls ==
    {DiceWithOps(Pool, before \o <<SetOperation("Reroll", <<Selector(k, t)>>)>>) :
        before \in {<<>>, <<SetOperation("Drop", <<Selector("Lowest", Num(1))>>)>>,
                    <<SetOperation("Drop", <<Selector("Literal", Num(MaxFaces))>>)>>,
                    <<SetOperation("Keep", <<Selector("Literal", Num(1))>>)>>},
        k \in {"Highest", "Lowest"}, t \in RerollCounts}

ModifiedDice ==
    {DiceWithOps(Pool, ops) : ops \in SingleOps \cup OddOps \cup ScopedOps}
      \cup OtherPools \cup KeepHighestDice \cup UnionKeepDice \cup UnionDropDice
      \cup LoopDice \cup ScopedDice \cup CountedDice \cup CountedRerolls

\* One die under a Reroll or an Explode whose target rolls a die: 1dS rr<1dS
\* and the like.
RolledTargetDice ==
    {DiceWithOps(Dice(Num(1), Sized(MaxFaces)),
                 <<SetOperation(o, <<Selector(k, Dice(Num(1), Sized(MaxFaces)))>>)>>) :
        o \in {"Reroll", "Explode"}, k \in {"LessThan", "Literal"}}

ChainedDice == {DiceWithOps(Pool, ops) : ops \in OpChains} \cup RolledTargetDice

SetElements ==
    {<<>>, <<Num(1)>>, <<Num(1), Num(2), Num(2)>>, <<Pool, Num(1)>>,
     <<Num(2), DiceWithOps(Pool, <<SetOperation("Drop", <<Selector("Lowest", Num(1))>>)>>)>>}

SetSelectors ==
    {Selector(k, Num(t)) : k \in {"Highest", "Lowest", "Literal"}, t \in 1..2}

SetOps == {SetOperation(o, <<sel>>) : o \in {"Keep", "Drop"}, sel \in SetSelectors}

\* The sets of the repository's chained-Keep tests: (1, 2, 3, 4, 5)k1k2,
\* (1, 2, 3, 4, 5)kh1kl1 and (1, 2, 3)k1k2.
OneToFive == <<Num(1), Num(2), Num(3), Num(4), Num(5)>>

KeepOneKeepTwo ==
    <<SetOperation("Keep", <<Selector("Literal", Num(1))>>),
      SetOperation("Keep", <<Selector("Literal", Num(2))>>)>>

KeepHighestKeepLowest ==
    <<SetOperation("Keep", <<Selector("Highest", Num(1))>>),
      SetOperation("Keep", <<Selector("Lowest", Num(1))>>)>>

KeepExamples ==
    {SetNode(OneToFive, KeepOneKeepTwo), SetNode(OneToFive, KeepHighestKeepLowest),
     SetNode(SubSeq(OneToFive, 1, 3), KeepOneKeepTwo)}

\* The sets of the repository's chained-Drop tests: (1, 2, 3, 4, 5)p1p2 and
\* (1, 2, 3, 4, 5)ph1pl1; and a Drop with two selectors.
DropOneDropTwo ==
    <<SetOperation("Drop", <<Selector("Literal", Num(1))>>),
      SetOperation("Drop", <<Selector("Literal", Num(2))>>)>>

DropHighestDropLowest ==
    <<SetOperation("Drop", <<Selector("Highest", Num(1))>>),
      SetOperation("Drop", <<Selector("Lowest", Num(1))>>)>>

DropExamples ==
    {SetNode(OneToFive, DropOneDropTwo), SetNode(OneToFive, DropHighestDropLowest)}
      \cup {SetNode(SubSeq(OneToFive, 1, 3), <<p>>) : p \in TwoSelectorDrops}

CountedSets ==
    {SetNode(<<Num(1), Num(2), Num(2)>>, before \o <<op>>) :
        before \in {<<>>, <<SetOperation("Drop", <<Selector("Highest", Num(1))>>)>>,
                    <<SetOperation("Keep", <<Selector("Lowest", Num(1))>>)>>},
        op \in CountedOps}

Sets ==
    KeepExamples \cup DropExamples \cup CountedSets \cup
    {SetNode(els, ops) :
        els \in SetElements,
        ops \in {<<>>} \cup {<<a>> : a \in SetOps}
                  \cup {<<a, SetOperation(o, <<Selector("Highest", Num(1))>>)>> :
                          a \in SetOps, o \in {"Keep", "Drop"}}}
      \cup {SetNode(<<Num(1), Num(2)>>, <<SetOperation(o, <<Selector("Literal", Num(1))>>)>>) :
              o \in SetOperator}

BinaryOperators ==
    {"Add", "Subtract", "Multiply", "Divide", "IntDivide", "Modulo", "Equal",
     "NotEqual", "Greater", "GreaterEqual", "Less", "LessEqual"}

\* Operands: negative, zero, positive and fractional numbers, a difference
\* that is zero, dice (0dS totals zero), an empty set, an infinity, a NaN.
Operands ==
    {Num(-7), Num(0), Num(2), Num(15), Half(1), Unary("Minus", Num(2)),
     Binary("Subtract", Num(1), Num(1)), Dice(Num(0), Sized(MaxFaces)),
     Dice(Num(1), Sized(MaxFaces)), SetNode(<<>>, <<>>),
     Binary("Divide", Num(1), Num(0)), Binary("Divide", Num(0), Num(0))}

\* Right operands: those that total zero, and integers of either sign.
RightOperands ==
    {Num(0), Binary("Subtract", Num(1), Num(1)), Dice(Num(0), Sized(MaxFaces)),
     SetNode(<<>>, <<>>), Num(-7), Num(2), Unary("Minus", Num(2)),
     Dice(Num(1), Sized(MaxFaces))}

Arithmetic ==
    Operands \cup {Unary(o, e) : o \in {"Plus", "Minus"}, e \in Operands}
      \cup {Binary(o, l, r) : o \in BinaryOperators, l \in Operands, r \in RightOperands}

Annotations == {<<"fire">>, <<"fire", "damage">>}

AnnotatedExprs ==
    {Annotated(e, a) :
        e \in {Num(1), Pool, Dice(None, Percent), Binary("Add", Num(1), Pool),
               DiceWithOps(Pool, <<SetOperation("Keep", <<Selector("Highest", Num(1))>>)>>),
               DiceWithOps(Pool, <<SetOperation("Reroll", <<Selector("Literal", Num(1))>>)>>),
               SetNode(<<Pool, Num(1)>>, <<>>), Dice(Num(1), Sized(0))},
        a \in Annotations}
      \cup {Binary("Add", Annotated(Pool, <<"fire">>), Num(1))}

(***************************************************************************)
(* A caller evaluating one syntax tree                                     *)
(***************************************************************************)
\* rng: the caller's randomness source; call, result: the latest
\* evaluate_with_rng call and what it returned; previous: the call before it
\* and its result; calls: the number of calls made; frame: the locals of an
\* eval_dice call that is under way; source: the expression a caller wrote,
\* input: its text, parsed: what parse returned for the text.
VARIABLES rng, call, result, calls, previous, frame, source, input, parsed

vars == <<rng, call, result, calls, previous, frame, source, input, parsed>>

NoCall == [expr |-> None, config |-> EvalConfig(0), rng |-> Rng(<<0>>, 0)]

NoResult == Err("", Evaluator(Rng(<<0>>, 0), EvalConfig(0), 0))

NoFrame ==
    [pc |-> "idle", dice |-> <<>>, ev |-> NoResult.ev, op |-> 0, queue |-> <<>>,
     idx |-> 0, distribution |-> Uniform(1, 1), size |-> Percent, quantity |-> 0,
     high |-> 0]

NoSource == [family |-> "none", body |-> <<>>]

NoParse ==
    NodeErr(NoError, [lexer |-> Lexer_new(<<>>), cur_token |-> Token("Eof"),
                      selector_depth |-> 0])

\* The caller owns a randomness source in an arbitrary state.
Init ==
    /\ rng \in {Rng(draws, 0) : draws \in RngStreams}
    /\ call = NoCall
    /\ result = NoResult
    /\ calls = 0
    /\ previous = [call |-> NoCall, result |-> NoResult]
    /\ frame = NoFrame
    /\ source = NoSource
    /\ input = <<>>
    /\ parsed = NoParse

\* evaluate_with_rng(expr, config, &mut rng): the source advances by the
\* values the evaluation drew, also when the evaluation fails.
Evaluate(expr, config) ==
    /\ call' = [expr |-> expr, config |-> config, rng |-> rng]
    /\ result' = evaluate_with_rng(expr, config, rng)
    /\ rng' = result'.ev.rng
    /\ calls' = calls + 1
    /\ previous' = [call |-> call, result |-> result]
    /\ UNCHANGED <<frame, source, input, parsed>>

\* One call per kind of syntax tree.
EvaluateDice ==
    \E expr \in ValidDice \cup InvalidDice \cup NearIntegerDice, config \in Configs :
        Evaluate(expr, config)

EvaluateModified ==
    \E expr \in ModifiedDice, config \in Configs : Evaluate(expr, config)

EvaluateChained ==
    \E expr \in ChainedDice, config \in {EvalConfig(MaxRolls), EvalConfig(MaxRolls + 1)} :
        Evaluate(expr, config)

EvaluateSet ==
    \E expr \in Sets, config \in {EvalConfig(1), EvalConfig(MaxRolls)} :
        Evaluate(expr, config)

EvaluateArithmetic == \E expr \in Arithmetic : Evaluate(expr, EvalConfig(MaxRolls))

EvaluateAnnotated ==
    \E expr \in AnnotatedExprs, config \in Configs : Evaluate(expr, config)

Next ==
    /\ calls = 0
    /\ \/ EvaluateDice
       \/ EvaluateModified
       \/ EvaluateChained
       \/ EvaluateSet
       \/ EvaluateArithmetic
       \/ EvaluateAnnotated

Spec == Init /\ [][Next]_vars

(***************************************************************************)
(* A caller making several calls with the same randomness source           *)
(***************************************************************************)
\* The number of calls in a session.
MaxCalls == 2

SessionExprs ==
    {Num(1), Dice(Num(1), Sized(MaxFaces)), Pool, Dice(Num(MaxQuantity + 1), Percent),
     DiceWithOps(Pool, <<SetOperation("Reroll", <<Selector("Literal", Num(1))>>)>>),
     DiceWithOps(Pool, <<SetOperation("Explode", <<Selector("Literal", Num(MaxFaces))>>)>>),
     SetNode(<<Pool, Num(1)>>, <<SetOperation("Keep", <<Selector("Highest", Num(1))>>)>>),
     Binary("Add", Pool, Dice(Num(1), Sized(MaxFaces)))}

SessionConfigs == {EvalConfig(MaxQuantity), EvalConfig(MaxRolls)}

\* Any tree of the session, with any budget.
SessionEvaluate ==
    \E expr \in SessionExprs, config \in SessionConfigs : Evaluate(expr, config)

\* The tree and budget of the latest call once more.
SessionRepeat == calls > 0 /\ Evaluate(call.expr, call.config)

NextSession ==
    /\ calls < MaxCalls
    /\ \/ SessionEvaluate
       \/ SessionRepeat

SpecSession == Init /\ [][NextSession]_vars

(***************************************************************************)
(* One eval_dice call, loop iteration by loop iteration                    *)
(*                                                                         *)
(* frame holds the locals of the call: the pool, the evaluator, the index  *)
(* of the modifier being applied, and the queue and idx of an Explode.     *)
(* Each action is one stretch of eval_dice and apply_dice_operations       *)
(* between two loop heads; the Reroll `loop` and the Explode `while` take  *)
(* one action per iteration.                                               *)
(***************************************************************************)
StepSelectors ==
    {Selector("Highest", Num(1)), Selector("Literal", Num(1)),
     Selector("Literal", Num(MaxFaces)), Selector("LessThan", Num(MaxFaces + 1)),
     Selector("GreaterThan", Num(MaxFaces)),
     Selector("Literal", Dice(None, Sized(MaxFaces)))}

LoopOps ==
    {SetOperation(o, <<sel>>) :
        o \in {"Reroll", "Explode", "RerollAdd"},
        sel \in {Selector("Literal", Num(1)), Selector("Highest", Num(1))}}

StepExprs ==
    {DiceWithOps(Pool, <<SetOperation(o, <<sel>>)>>) :
        o \in ImplementedOperators \cup {"Penetrate"}, sel \in StepSelectors}
      \cup {DiceWithOps(Pool, <<a, b>>) : a \in LoopOps, b \in LoopOps}
      \cup {DiceWithOps(Dice(q, f), <<SetOperation(o, <<Selector(k, Num(t))>>)>>) :
              q \in {None, Num(0)}, f \in {Sized(1), Percent, Sized(0)},
              o \in {"Reroll", "Explode"}, k \in {"Literal", "GreaterThanOrEqual"},
              t \in {0, 1}}
      \cup {DiceWithOps(Dice(Num(1), Sized(MaxFaces)), <<SetOperation("Explode", sels)>>) :
              sels \in LoopSelectors}
      \cup {Pool, Dice(Num(MaxRolls + 1), Percent), Dice(Half(1), Sized(MaxFaces))}

DiceOf(expr) == IF expr.type = "Dice" THEN expr ELSE expr.dice

OperationsOf(expr) == IF expr.type = "Dice" THEN <<>> ELSE expr.operations

Running == frame.pc \in {"ops", "explode"}

Finished == frame.pc \in {"done", "failed"}

\* `return Err(..)` or a `?` that propagates one: the call is over.
Fail(msg, ev) ==
    [frame |-> [frame EXCEPT !.pc = "failed", !.ev = ev], result |-> Err(msg, ev),
     rng |-> ev.rng]

\* The call goes on with the pool and evaluator it has now.
Continue(next_frame) == [frame |-> next_frame, result |-> result, rng |-> rng]

\* The step leaves the call, and the caller's source, as `after` says.
Commit(after) ==
    /\ frame' = after.frame
    /\ result' = after.result
    /\ rng' = after.rng
    /\ UNCHANGED <<source, input, parsed>>

\* eval_dice up to the modifiers: quantity, bounds, the base rolls.
BeginDice(expr, config) ==
    Let(dice_quantity(DiceOf(expr).num, Evaluator(rng, config, 0)), LAMBDA q :
    IF ~q.ok THEN Fail(q.err, q.ev)
    ELSE Let(dice_bounds(DiceOf(expr).size, q.ev), LAMBDA b :
    IF ~b.ok THEN Fail(b.err, b.ev)
    ELSE IF b.high = 0 THEN Fail("Die size must be positive", b.ev)
    ELSE IF b.low > b.high THEN Fail("Invalid die size", b.ev)
    ELSE Let(roll_new_dice(<<>>, q.n, "Original", Uniform(b.low, b.high),
                           DiceOf(expr).size, b.ev),
             LAMBDA rolled :
    IF ~rolled.ok THEN Fail(rolled.err, rolled.ev)
    ELSE Continue([pc |-> "ops", dice |-> rolled.dice, ev |-> rolled.ev, op |-> 1,
                   queue |-> <<>>, idx |-> 0, distribution |-> Uniform(b.low, b.high),
                   size |-> DiceOf(expr).size, quantity |-> q.n, high |-> b.high]))))

StepBegin(expr, config) ==
    /\ frame.pc = "idle"
    /\ call' = [expr |-> expr, config |-> config, rng |-> rng]
    /\ calls' = calls + 1
    /\ previous' = [call |-> call, result |-> result]
    /\ Commit(BeginDice(expr, config))

Operations == OperationsOf(call.expr)

AtOperation(operators) ==
    /\ frame.pc = "ops"
    /\ frame.op <= Len(Operations)
    /\ Operations[frame.op].operator \in operators
    /\ frame.ev.rolls <= MaxRolls

\* A modifier without a loop of its own.
AfterOperation ==
    Let(apply_dice_operation(frame.dice, Operations[frame.op], frame.distribution,
                             frame.size, frame.ev),
        LAMBDA r :
          IF ~r.ok THEN Fail(r.err, r.ev)
          ELSE Continue([frame EXCEPT !.dice = r.dice, !.ev = r.ev, !.op = @ + 1]))

StepOperation ==
    /\ AtOperation(SetOperator \ {"Reroll", "Explode"})
    /\ Commit(AfterOperation)
    /\ UNCHANGED <<call, calls, previous>>

\* One iteration of the Reroll `loop`.
AfterRerollPass ==
    Let(reroll_pass(frame.dice, Operations[frame.op], frame.distribution, frame.size,
                    frame.ev),
        LAMBDA p :
          IF ~p.ok THEN Fail(p.err, p.ev)
          ELSE Continue([frame EXCEPT !.dice = p.dice, !.ev = p.ev,
                                      !.op = IF p.again THEN @ ELSE @ + 1]))

StepRerollPass ==
    /\ AtOperation({"Reroll"})
    /\ Commit(AfterRerollPass)
    /\ UNCHANGED <<call, calls, previous>>

\* `let mut queue = self.select_dice(..)?; let mut idx = 0;`
AfterExplodeBegin ==
    Let(select_dice(frame.dice, Operations[frame.op].selectors, frame.ev), LAMBDA sel :
        IF ~sel.ok THEN Fail(sel.err, sel.ev)
        ELSE Continue([frame EXCEPT !.pc = "explode", !.queue = sel.indices, !.idx = 0,
                                    !.ev = sel.ev]))

StepExplodeBegin ==
    /\ AtOperation({"Explode"})
    /\ Commit(AfterExplodeBegin)
    /\ UNCHANGED <<call, calls, previous>>

\* One iteration of the Explode `while idx < queue.len()`, or its exit.
AfterExplode ==
    IF frame.idx < Len(frame.queue)
    THEN Let(explode_step(frame.dice, frame.queue, frame.idx, Operations[frame.op],
                          frame.distribution, frame.size, frame.ev),
             LAMBDA e :
               IF ~e.ok THEN Fail(e.err, e.ev)
               ELSE Continue([frame EXCEPT !.dice = e.dice, !.queue = e.queue,
                                           !.idx = e.idx, !.ev = e.ev]))
    ELSE Continue([frame EXCEPT !.pc = "ops", !.op = @ + 1])

StepExplode ==
    /\ frame.pc = "explode"
    /\ frame.ev.rolls <= MaxRolls
    /\ Commit(AfterExplode)
    /\ UNCHANGED <<call, calls, previous>>

\* After the last modifier: refresh_drop_state, the total, Ok(EvalResult).
StepFinish ==
    /\ frame.pc = "ops"
    /\ frame.op > Len(Operations)
    /\ frame' = [frame EXCEPT !.pc = "done"]
    /\ result' = finish_dice(frame.dice, frame.quantity, frame.high, Operations, frame.ev)
    /\ rng' = frame.ev.rng
    /\ UNCHANGED <<call, calls, previous, source, input, parsed>>

NextStep ==
    \/ \E expr \in StepExprs, config \in Configs : StepBegin(expr, config)
    \/ StepOperation
    \/ StepRerollPass
    \/ StepExplodeBegin
    \/ StepExplode
    \/ StepFinish

SpecSteps == Init /\ [][NextStep]_vars

(***************************************************************************)
(* A caller parsing one text                                               *)
(*                                                                         *)
(* The caller has written an expression (source); parse and roll of        *)
(* src/src/lib.rs are given its text.  A text is a sequence of characters. *)
(***************************************************************************)
\* Chains of binary operators have up to MaxOperators operators.
MaxOperators == 2

\* Chains of unary signs have up to MaxSigns signs.
MaxSigns == 2

\* The binary operators as they are written, with the name the parser gives
\* them and their layer: 1 comparison, 2 additive, 3 multiplicative.
Written(text, operator, layer) ==
    [text |-> text, operator |-> operator, layer |-> layer]

WrittenOperators ==
    {Written(<<"=", "=">>, "Equal", 1), Written(<<"!", "=">>, "NotEqual", 1),
     Written(<<">">>, "Greater", 1), Written(<<">", "=">>, "GreaterEqual", 1),
     Written(<<"<">>, "Less", 1), Written(<<"<", "=">>, "LessEqual", 1),
     Written(<<"+">>, "Add", 2), Written(<<"-">>, "Subtract", 2),
     Written(<<"*">>, "Multiply", 3), Written(<<"/">>, "Divide", 3),
     Written(<<"/", "/">>, "IntDivide", 3), Written(<<"%">>, "Modulo", 3)}

\* One operator of each layer, and a second additive one.
SomeOperators ==
    {w \in WrittenOperators : w.operator \in {"Equal", "Add", "Subtract", "Multiply"}}

\* An operand: signs, then a one-digit number or a parenthesised chain.
Operand(signs, value) == [signs |-> signs, value |-> value, inner |-> <<>>]

Grouped(signs, chain) == [signs |-> signs, value |-> 0, inner |-> <<chain>>]

Chain(operands, operators) == [operands |-> operands, operators |-> operators]

\* The operand values of a chain, by position.
Values == <<1, 3, 6, 2, 5>>

SignChains == UNION {[1..n -> {"+", "-"}] : n \in 0..MaxSigns}

\* test_unop_extreme_nesting: -+-++---+1
ExtremeNesting == <<"-", "+", "-", "+", "+", "-", "-", "-", "+">>

PlainChain(operators) ==
    Chain([i \in 1..(Len(operators) + 1) |-> Operand(<<>>, Values[i])], operators)

\* 1, 1 + 3, 1 + 3 * 6, 1 == 3 == 6, ...: every chain of up to MaxOperators
\* operators, and the chains of one operator more over SomeOperators.
PlainChains ==
    {PlainChain(operators) :
        operators \in UNION {[1..m -> WrittenOperators] : m \in 0..MaxOperators}}
    \cup {PlainChain(operators) : operators \in [1..(MaxOperators + 1) -> SomeOperators]}

\* -1, +-1, -+-++---+1, -1 + -3, ...
SignedChains ==
    {Chain(<<Operand(signs, 1)>>, <<>>) :
        signs \in SignChains \cup [1..(MaxSigns + 1) -> {"+", "-"}] \cup {ExtremeNesting}}
    \cup {Chain(<<Operand(left, 1), Operand(right, 3)>>, <<w>>) :
            left \in SignChains, right \in SignChains, w \in SomeOperators}

\* (1 + 3) * 6, 1 + (3 * 6), -(1 + 3) * 6, ...
GroupedChains ==
    {Chain(<<Grouped(signs, Chain(<<Operand(<<>>, 1), Operand(<<>>, 3)>>, <<v>>)),
             Operand(<<>>, 6)>>, <<w>>) :
        signs \in {<<>>, <<"-">>}, v \in SomeOperators, w \in SomeOperators}
    \cup {Chain(<<Operand(<<>>, 1),
                  Grouped(signs, Chain(<<Operand(<<>>, 3), Operand(<<>>, 6)>>, <<v>>))>>,
                <<w>>) :
            signs \in {<<>>, <<"-">>}, v \in SomeOperators, w \in SomeOperators}

ArithmeticSources ==
    {[family |-> "arithmetic", body |-> chain, spaced |-> spaced] :
        chain \in PlainChains \cup SignedChains \cup GroupedChains, spaced \in BOOLEAN}

\* The elements a parenthesis is written around.
ElementTexts ==
    {<<"1">>, <<"1", "+", "2">>, <<"-", "1">>, <<"1", "d", "2">>, <<"d", "%">>,
     <<"1", "d", "2", "k", "1">>, <<"-", "1", "d", "2">>, <<"(", "1", ")">>,
     <<"(", "1", "d", "2", ")">>, <<"(", "1", ",", ")">>,
     <<"1", "d", "2", "[", "a", "]">>}

\* What follows the closing parenthesis: nothing, a binary operator and its
\* right operand, or a modifier.
Follow(text, kind, operator, selector) ==
    [text |-> text, kind |-> kind, operator |-> operator, selector |-> selector]

ModifierTails ==
    {Follow(<<"k", "1">>, "modifier", "Keep", "Literal"),
     Follow(<<"k", "h", "1">>, "modifier", "Keep", "Highest"),
     Follow(<<"p", "l", "1">>, "modifier", "Drop", "Lowest"),
     Follow(<<"r", "r", "1">>, "modifier", "Reroll", "Literal"),
     Follow(<<"r", "o", "<", "1">>, "modifier", "RerollOnce", "LessThan"),
     Follow(<<"r", "a", "1">>, "modifier", "RerollAdd", "Literal"),
     Follow(<<"e", "1">>, "modifier", "Explode", "Literal"),
     Follow(<<"!", "1">>, "modifier", "Explode", "Literal"),
     Follow(<<"m", "i", "1">>, "modifier", "Minimum", "Literal"),
     Follow(<<"m", "a", "1">>, "modifier", "Maximum", "Literal")}

Tails ==
    {Follow(<<>>, "none", "", ""), Follow(<<"*", "1">>, "binary", "Multiply", ""),
     Follow(<<"+", "1">>, "binary", "Add", ""),
     Follow(<<"=", "=", "1">>, "binary", "Equal", "")}
    \cup ModifierTails

\* (), (1), (1,), (1, 2), (1d2)k1, (1 + 2) * 1, ...
GroupSources ==
    {[family |-> "group",
      body |-> [elements |-> elements, comma |-> comma, tail |-> tail],
      spaced |-> FALSE] :
        elements \in UNION {[1..n -> ElementTexts] : n \in 0..2},
        comma \in BOOLEAN, tail \in Tails}

\* Texts that parse to one full expression.
FullTexts ==
    ElementTexts \cup {<<"(", "1", ",", "2", ")">>, <<"1", "[", "a", "]">>,
                       <<"(", ")">>, <<"1", "+", "2", "=", "=", "3">>}

\* What is left over after a full expression.
Leftovers ==
    {<<"2">>, <<")">>, <<",">>, <<"]">>, <<"{">>, <<"}">>, <<"h">>, <<"l">>,
     <<"d", "2">>, <<"d", "%">>, <<"(", "1", ")">>, <<"[", "a", "]">>, <<"1", "+">>,
     <<"+", "2">>, <<"k", "1">>, <<".", "5">>, <<"=">>, <<"?">>, <<" ">>, <<>>}

\* 1 2, 1d2 ), (1, 2) d2, ...
TrailingSources ==
    {[family |-> "parts", body |-> <<full, leftover>>, spaced |-> spaced] :
        full \in FullTexts, leftover \in Leftovers, spaced \in BOOLEAN}

\* What modifiers are written after.
Bases ==
    {<<"1">>, <<"1", "d", "2">>, <<"d", "%">>, <<"(", "1", ",", "2", ")">>,
     <<"(", "1", ")">>, <<"(", "1", "d", "2", ")">>, <<"1", "d", "2", "k", "1">>,
     <<"(", "1", "+", "2", ")">>, <<"1", "+", "2">>, <<"-", "1">>, <<"1", ".", "5">>,
     <<"1", "d", "2", "[", "a", "]">>, <<>>}

Keywords ==
    {<<"k">>, <<"p">>, <<"r", "r">>, <<"r", "o">>, <<"r", "a">>, <<"e">>, <<"!">>,
     <<"m", "i">>, <<"m", "a">>}

\* What is written after a modifier keyword.
AfterKeyword ==
    {<<>>, <<"1">>, <<"h", "1">>, <<"h">>, <<">">>, <<")">>, <<"]">>, <<",">>,
     <<"*", "2">>, <<"k", "1">>, <<"[", "a", "]">>, <<"(", ")">>, <<"(", "1", ")">>,
     <<"-", "1">>, <<"1", "d", "2", "k", "1">>, <<"=">>, <<"?">>}

\* 1k1, 1d2k, 1d2kh, (1, 2)p), d%rr1, ...
ModifierSources ==
    {[family |-> "parts", body |-> <<base, keyword, after>>, spaced |-> spaced] :
        base \in Bases, keyword \in Keywords, after \in AfterKeyword,
        spaced \in BOOLEAN}

\* Dice and sets with one modifier, as 4d6kh3 is.
ModifiedTexts ==
    {<<"1", "d", "2", "k", "h", "1">>, <<"1", "d", "2", "k", "1">>,
     <<"d", "%", "p", "l", "1">>, <<"1", "d", "2", "r", "o", "<", "1">>,
     <<"1", "d", "2", "m", "i", "1">>, <<"(", "1", ",", "2", ")", "k", "h", "1">>}

\* 1d2kh1 + 2, 1d2kh1+2, (1, 2)kh1 - 2, 1d2k1 * 2, ...
SumSources ==
    {[family |-> "sum", body |-> [left |-> left, operator |-> operator, right |-> <<"2">>],
      spaced |-> spaced] :
        left \in ModifiedTexts, operator \in {"+", "-", "*"}, spaced \in BOOLEAN}

\* Dice and sets under up to MaxModifiers modifiers, written one after the
\* other (1d2k1pl1kh1) or each around a parenthesis (((1d2k1)pl1)kh1).
MaxModifiers == 3

NestBases == {<<"1", "d", "2">>, <<"d", "%">>, <<"(", "1", ",", "2", ")">>}

NestTails ==
    {tail \in ModifierTails :
        tail.text \in {<<"k", "1">>, <<"k", "h", "1">>, <<"p", "l", "1">>,
                       <<"r", "r", "1">>}}

NestedSources ==
    {[family |-> "nested", body |-> [base |-> base, tails |-> tails, wrapped |-> wrapped],
      spaced |-> FALSE] :
        base \in NestBases,
        tails \in UNION {[1..n -> NestTails] : n \in 1..MaxModifiers},
        wrapped \in BOOLEAN}

\* What is written where a selector's target stands.
TargetTexts ==
    {<<"1", "d", "2">>, <<"d", "%">>, <<"-", "1", "d", "2">>,
     <<"(", "1", "d", "2", ")">>, <<"(", "1", "d", "2", "k", "1", ")">>,
     <<"(", "1", "d", "2", "[", "a", "]", ")">>, <<"(", "1", "[", "a", "]", ")">>,
     <<"(", "(", "1", ",", "2", ")", ")">>,
     <<"(", "(", "1", ",", "2", ")", "k", "1", ")">>,
     <<"(", "(", "1", ",", "2", ")", "[", "a", "]", ")">>,
     <<"(", "(", "1", ")", "k", "1", ")">>,
     <<"(", "(", "1", "d", "2", ")", "k", "1", ")">>,
     <<"(", "1", "+", "1", "d", "2", ")">>, <<"(", "-", "(", "1", "d", "2", ")", ")">>,
     <<"(", "1", "d", "2", "k", "1", "d", "2", ")">>, <<"(", "1", "d", "2">>}

TargetBases == {<<"1", "d", "2">>, <<"(", "1", ",", "2", ")">>}

TargetKeywords == {<<"k">>, <<"r", "r">>, <<"m", "i">>}

TargetKinds == {<<>>, <<"h">>, <<">">>}

AfterTarget ==
    {<<>>, <<"k", "1">>, <<"[", "a", "]">>, <<"h", "1">>, <<")">>,
     <<"(", "1", "d", "2", "k", "1", ")">>}

\* 1d2k(1d2)k1, (1, 2)rrh((1, 2)), 1d2mi>(1d2[a]), ...
TargetSources ==
    {[family |-> "parts", body |-> <<base, keyword, kind, target, after>>,
      spaced |-> FALSE] :
        base \in TargetBases, keyword \in TargetKeywords, kind \in TargetKinds,
        target \in TargetTexts, after \in AfterTarget}

\* Expressions under up to MaxAnnotations annotation groups, written one
\* after the other (1d2[a][b]) or each around a parenthesis ((1d2[a])[b]).
MaxAnnotations == 3

AnnotatedBases ==
    {<<"1">>, <<"1", "d", "2">>, <<"(", "1", "+", "2", ")">>,
     <<"(", "1", ",", "2", ")">>, <<"1", "d", "2", "k", "1">>, <<"-", "1">>}

Groups ==
    {[text |-> <<"[", "a", "]">>, annotation |-> <<"a">>],
     [text |-> <<"[", "b", "]">>, annotation |-> <<"b">>]}

AnnotatedSources ==
    {[family |-> "annotated",
      body |-> [base |-> base, tails |-> groups, wrapped |-> wrapped],
      spaced |-> FALSE] :
        base \in AnnotatedBases,
        groups \in UNION {[1..n -> Groups] : n \in 1..MaxAnnotations},
        wrapped \in BOOLEAN}

Sources ==
    ArithmeticSources \cup GroupSources \cup TrailingSources \cup ModifierSources
      \cup SumSources \cup NestedSources \cup TargetSources \cup AnnotatedSources

\* The text of a source: as_ref() of what the caller wrote.
RECURSIVE Concat(_, _)
Concat(texts, separator) ==
    IF texts = <<>> THEN <<>>
    ELSE IF Len(texts) = 1 THEN texts[1]
    ELSE texts[1] \o separator \o Concat(Tail(texts), separator)

Digit == <<"0", "1", "2", "3", "4", "5", "6", "7", "8", "9">>

RECURSIVE ChainText(_, _)
OperandText(operand, separator) ==
    operand.signs
    \o (IF operand.inner = <<>> THEN <<Digit[operand.value + 1]>>
        ELSE <<"(">> \o ChainText(operand.inner[1], separator) \o <<")">>)

ChainText(chain, separator) ==
    IF chain.operators = <<>> THEN OperandText(chain.operands[1], separator)
    ELSE ChainText(Chain(SubSeq(chain.operands, 1, Len(chain.operators)),
                         SubSeq(chain.operators, 1, Len(chain.operators) - 1)),
                   separator)
         \o separator \o chain.operators[Len(chain.operators)].text \o separator
         \o OperandText(chain.operands[Len(chain.operands)], separator)

GroupText(group) ==
    <<"(">> \o Concat(group.elements, <<",", " ">>)
    \o (IF group.comma THEN <<",">> ELSE <<>>) \o <<")">> \o group.tail.text

\* The base under its first n modifiers.
RECURSIVE NestedText(_, _)
NestedText(nested, n) ==
    IF n = 0 THEN nested.base
    ELSE IF nested.wrapped /\ n > 1
    THEN <<"(">> \o NestedText(nested, n - 1) \o <<")">> \o nested.tails[n].text
    ELSE NestedText(nested, n - 1) \o nested.tails[n].text

TextOf(written) ==
    CASE written.family = "arithmetic" ->
            ChainText(written.body, IF written.spaced THEN <<" ">> ELSE <<>>)
      [] written.family = "group" -> GroupText(written.body)
      [] written.family = "parts" ->
            Concat(written.body, IF written.spaced THEN <<" ">> ELSE <<>>)
      [] written.family \in {"nested", "annotated"} ->
            NestedText(written.body, Len(written.body.tails))
      [] written.family = "sum" ->
            Concat(<<written.body.left, <<written.body.operator>>, written.body.right>>,
                   IF written.spaced THEN <<" ">> ELSE <<>>)

\* The randomness source of a caller that rolls a text.
RollRng == Rng([i \in 1..RngLen |-> 0], 0)

InitParse ==
    /\ rng = RollRng
    /\ call = NoCall
    /\ result = NoResult
    /\ calls = 0
    /\ previous = [call |-> NoCall, result |-> NoResult]
    /\ frame = NoFrame
    /\ source \in Sources
    /\ input = <<>>
    /\ parsed = NoParse

\* parse(input) of src/src/lib.rs
Parse ==
    /\ parsed = NoParse
    /\ input' = TextOf(source)
    /\ parsed' = parse_input(TextOf(source))
    /\ UNCHANGED <<rng, call, result, calls, previous, frame, source>>

\* roll(input) of src/src/lib.rs: parse, then evaluate the tree if there is
\* one.
Roll ==
    /\ parsed = NoParse
    /\ input' = TextOf(source)
    /\ parsed' = parse_input(TextOf(source))
    /\ IF parsed'.ok
       THEN /\ call' = [expr |-> parsed'.node, config |-> EvalConfig(MaxRolls),
                        rng |-> rng]
            /\ result' = evaluate_with_rng(parsed'.node, EvalConfig(MaxRolls), rng)
            /\ rng' = result'.ev.rng
            /\ calls' = calls + 1
            /\ previous' = [call |-> call, result |-> result]
       ELSE UNCHANGED <<rng, call, result, calls, previous>>
    /\ UNCHANGED <<frame, source>>

NextParse ==
    \/ Parse
    \/ Roll

SpecParse == InitParse /\ [][NextParse]_vars

(***************************************************************************)
(* The lexer, one next_token call at a time                                *)
(***************************************************************************)
\* Texts are up to MaxText characters of LexAlphabet, or two spellings.
MaxText == 4

\* A lexer is asked for up to MaxTokens tokens.
MaxTokens == 8

LexAlphabet == {"[", "]", "a", " ", "1"}

ShortTexts == UNION {[1..n -> LexAlphabet] : n \in 0..MaxText}

Spellings ==
    {TwoCharTokens[i].pattern : i \in DOMAIN TwoCharTokens}
      \cup {<<c>> : c \in DOMAIN OneCharTokens}
      \cup {<<"1", ".", "5">>, <<".", "5">>, <<"1", ".">>, <<"=">>, <<"?">>, <<"r">>,
            <<" ">>, <<"a">>}

SpelledTexts == {first \o second : first, second \in Spellings}

LexTexts == ShortTexts \cup SpelledTexts

\* No call of next_token has returned yet.
NoToken == TokenOk(Token("None"), Lexer_new(<<>>))

\* What a call of next_token hands back: the token, or an Error entry.
Handed(returned) == IF returned.ok THEN returned.token ELSE Token("Error")

\* Lexer::new(input)
InitLex ==
    /\ input \in LexTexts
    /\ frame = [lexer |-> Lexer_new(input), before |-> Lexer_new(input),
                returned |-> NoToken, emitted |-> <<>>]
    /\ rng = RollRng
    /\ call = NoCall
    /\ result = NoResult
    /\ calls = 0
    /\ previous = [call |-> NoCall, result |-> NoResult]
    /\ source = NoSource
    /\ parsed = NoParse

\* Lexer::next_token, called as Parser::new and Parser::advance call it: not
\* again after an error.
NextToken ==
    /\ calls < MaxTokens
    /\ frame.returned.ok
    /\ frame' = [lexer |-> next_token(frame.lexer).lexer,
                 before |-> frame.lexer,
                 returned |-> next_token(frame.lexer),
                 emitted |-> Append(frame.emitted, Handed(next_token(frame.lexer)))]
    /\ calls' = calls + 1
    /\ UNCHANGED <<rng, call, result, previous, source, input, parsed>>

NextLex == NextToken

SpecLex == InitLex /\ [][NextLex]_vars

(***************************************************************************)
(* Reading a result tree                                                   *)
(***************************************************************************)
BudgetError == "Exceeded maximum number of rolls"

\* Every EvalResult of the tree rooted at r, r first.
RECURSIVE SubResults(_)
RECURSIVE SubResultsOf(_, _)
SubResultsOf(elements, i) ==
    IF i > Len(elements) THEN <<>>
    ELSE SubResults(elements[i].value) \o SubResultsOf(elements, i + 1)

SubResults(r) ==
    <<r>> \o
    CASE r.value.type = "Unary" -> SubResults(r.value.operand)
      [] r.value.type = "Binary" ->
           SubResults(r.value.left) \o SubResults(r.value.right)
      [] r.value.type = "Annotated" -> SubResults(r.value.expr)
      [] r.value.type = "Set" -> SubResultsOf(r.value.elements, 1)
      [] OTHER -> <<>>

\* The sum of vals[i] over the indices i >= from with kept[i].
RECURSIVE SumWhere(_, _, _)
SumWhere(vals, kept, from) ==
    IF from > Len(vals) THEN Lit(0)
    ELSE IF kept[from] THEN FAdd(vals[from], SumWhere(vals, kept, from + 1))
    ELSE SumWhere(vals, kept, from + 1)

NumberKept(pool) == Cardinality({i \in DOMAIN pool : pool[i].kept})

NumberDropped(pool) == Cardinality({i \in DOMAIN pool : pool[i].dropped})

\* The evaluation of the call has returned.
Returned == calls > 0

Succeeded == Returned /\ result.ok

Failed == Returned /\ ~result.ok

(***************************************************************************)
(* C1: in every DiceRoll and SetRoll of a returned result tree, dropped is *)
(* the negation of kept for every member, and the node's total is the sum  *)
(* of the values (dice) or sub-totals (elements) of the kept members.      *)
(***************************************************************************)
KeptTotalOk(r) ==
    CASE r.value.type = "Dice" ->
           /\ \A i \in DOMAIN r.value.dice :
                 r.value.dice[i].dropped = ~r.value.dice[i].kept
           /\ r.total = SumWhere([i \in DOMAIN r.value.dice |-> r.value.dice[i].value],
                                 [i \in DOMAIN r.value.dice |-> r.value.dice[i].kept], 1)
      [] r.value.type = "Set" ->
           /\ \A i \in DOMAIN r.value.elements :
                 r.value.elements[i].dropped = ~r.value.elements[i].kept
           /\ r.total =
                SumWhere([i \in DOMAIN r.value.elements |-> r.value.elements[i].value.total],
                         [i \in DOMAIN r.value.elements |-> r.value.elements[i].kept], 1)
      [] OTHER -> TRUE

C1_KeptTotals ==
    Succeeded =>
        LET subs == SubResults(EvalResult(result))
        IN \A j \in DOMAIN subs : KeptTotalOk(subs[j])

\* A set holding a dice pool with a dropped die, itself with a dropped element.
C1_Witness ==
    /\ Succeeded
    /\ result.value.type = "Set"
    /\ NumberKept(result.value.elements) = 1
    /\ NumberDropped(result.value.elements) = 1
    /\ \E i \in DOMAIN result.value.elements :
          /\ result.value.elements[i].value.value.type = "Dice"
          /\ NumberDropped(result.value.elements[i].value.value.dice) = 1
          /\ result.value.elements[i].kept

(***************************************************************************)
(* C2: the roll counter never exceeds max_rolls; it counts exactly the     *)
(* values drawn (one per die roll, whatever part of the tree rolled); a    *)
(* roll attempted with the counter at max_rolls fails the whole evaluation *)
(* with the roll-budget error and no result tree; a dice node of quantity  *)
(* q fails so when q > max_rolls and succeeds with q rolls otherwise.      *)
(***************************************************************************)
\* The number of roll-history entries of all dice of a result tree.
RECURSIVE HistoryLength(_, _)
HistoryLength(subs, j) ==
    IF j > Len(subs) THEN 0
    ELSE (IF subs[j].value.type = "Dice"
          THEN LET dice == subs[j].value.dice
                   lens == [i \in DOMAIN dice |-> Lit(Len(dice[i].rolls))]
               IN FSum(lens).n
          ELSE 0) + HistoryLength(subs, j + 1)

\* A modifier of the call has a selector target that itself rolls dice.
RollingTarget ==
    /\ call.expr.type = "DiceWithOps"
    /\ \E i \in DOMAIN call.expr.operations :
          \E j \in DOMAIN call.expr.operations[i].selectors :
             call.expr.operations[i].selectors[j].target.type = "Dice"

\* A dice node with a literal quantity and a usable size.
PlainDice == call.expr \in ValidDice /\ call.expr.num # None

C2_RollBudget ==
    Returned =>
        /\ result.ev.rolls <= call.config.max_rolls
        /\ result.ev.rolls = result.ev.rng.pos - call.rng.pos
        /\ (Succeeded /\ ~RollingTarget) =>
              result.ev.rolls = HistoryLength(SubResults(EvalResult(result)), 1)
        /\ (Failed /\ result.err = BudgetError) =>
              /\ result.ev.rolls = call.config.max_rolls
              /\ DOMAIN result = {"ok", "err", "ev"}
        /\ PlainDice =>
              LET q == call.expr.num.value.n
              IN IF q > call.config.max_rolls
                 THEN Failed /\ result.err = BudgetError
                 ELSE /\ Succeeded
                      /\ Len(result.value.dice) = q
                      /\ result.ev.rolls = q

\* A reroll attempted with the counter at max_rolls, after the base dice.
C2_Witness ==
    /\ Failed
    /\ result.err = BudgetError
    /\ call.expr.type = "DiceWithOps"
    /\ call.expr.operations[1].operator = "Reroll"
    /\ call.config.max_rolls = MaxRolls
    /\ result.ev.rolls = MaxRolls

(***************************************************************************)
(* C4: NdS with the single modifier keep-highest K, 0 <= K <= N, evaluated *)
(* within the roll budget, gives exactly N dice, K of them kept and N - K  *)
(* dropped, and a total equal to the sum of the K largest rolled values.   *)
(***************************************************************************)
\* The call is NdS khK with number literals N and K.
KeepHighestCall ==
    /\ call.expr.type = "DiceWithOps"
    /\ call.expr.dice.num # None
    /\ call.expr.dice.num.type = "Literal"
    /\ Len(call.expr.operations) = 1
    /\ call.expr.operations[1].operator = "Keep"
    /\ Len(call.expr.operations[1].selectors) = 1
    /\ call.expr.operations[1].selectors[1].kind = "Highest"
    /\ call.expr.operations[1].selectors[1].target.type = "Literal"
    /\ IsFinite(call.expr.operations[1].selectors[1].target.value)
    /\ call.expr.operations[1].selectors[1].target.value.d = 1

\* The largest member of a non-empty set of integers.
Largest(S) == CHOOSE x \in S : \A y \in S : y <= x

\* The sum of the k largest of the integers vals[i], i \in idx.
RECURSIVE SumOfLargest(_, _, _)
SumOfLargest(vals, idx, k) ==
    IF k = 0 \/ idx = {} THEN 0
    ELSE LET top == Largest({vals[i] : i \in idx})
             at == CHOOSE i \in idx : vals[i] = top
         IN top + SumOfLargest(vals, idx \ {at}, k - 1)

C4_KeepHighest ==
    (Returned /\ KeepHighestCall) =>
        LET N == call.expr.dice.num.value.n
            K == call.expr.operations[1].selectors[1].target.value.n
        IN (0 <= K /\ K <= N /\ N <= call.config.max_rolls) =>
              /\ Succeeded
              /\ Len(result.value.dice) = N
              /\ NumberKept(result.value.dice) = K
              /\ NumberDropped(result.value.dice) = N - K
              /\ result.total =
                    Lit(SumOfLargest([i \in 1..N |-> result.value.dice[i].rolls[1].n],
                                     1..N, K))

\* Three dice that do not all show the same value, the highest one kept.
C4_Witness ==
    /\ Succeeded
    /\ KeepHighestCall
    /\ call.expr.dice.num.value = Lit(MaxQuantity + 1)
    /\ call.expr.operations[1].selectors[1].target.value = Lit(1)
    /\ NumberDropped(result.value.dice) = MaxQuantity
    /\ \E i, j \in DOMAIN result.value.dice :
          result.value.dice[i].value # result.value.dice[j].value

(***************************************************************************)
(* C7: every value a die roll produced (first roll, reroll, reroll-add     *)
(* die, explosion die) is an integer in 1..S for a die with S faces and    *)
(* one of 0, 10, ..., 90 for the percentile die; when no Minimum or        *)
(* Maximum is among the modifiers every die's current value is in that     *)
(* range too.                                                              *)
(***************************************************************************)
\* The call evaluates a dice node, with or without modifiers.
DiceCall == call.expr.type \in {"Dice", "DiceWithOps"}

DiceOfCall == IF call.expr.type = "Dice" THEN call.expr ELSE call.expr.dice

OperationsOfCall == IF call.expr.type = "Dice" THEN <<>> ELSE call.expr.operations

\* v is a face of the die the call rolls.
IsFace(v) ==
    IF DiceOfCall.size.kind = "Percent"
    THEN \E digit \in 0..9 : v = Lit(10 * digit)
    ELSE /\ IsFinite(v)
         /\ v.d = 1
         /\ 1 <= v.n
         /\ v.n <= FRound(DiceOfCall.size.inner.value).n

NoClamp ==
    \A i \in DOMAIN OperationsOfCall :
        OperationsOfCall[i].operator \notin {"Minimum", "Maximum"}

C7_RollRange ==
    (Succeeded /\ DiceCall) =>
        \A i \in DOMAIN result.value.dice :
            /\ \A j \in DOMAIN result.value.dice[i].rolls :
                   IsFace(result.value.dice[i].rolls[j])
            /\ NoClamp => IsFace(result.value.dice[i].value)

\* A percentile die rerolled from 0 to 90.
C7_Witness ==
    /\ Succeeded
    /\ DiceCall
    /\ DiceOfCall.size.kind = "Percent"
    /\ \E i \in DOMAIN result.value.dice :
          /\ result.value.dice[i].rolls = <<Lit(0), Lit(90)>>
          /\ result.value.dice[i].value = Lit(90)

(***************************************************************************)
(* C8: a Dice node whose quantity is negative or further than EPSILON from *)
(* the nearest integer, or whose face count is not positive, rounds to 0   *)
(* or is further than EPSILON from the nearest integer, fails with a       *)
(* validation error before any die is rolled: no roll is counted and no    *)
(* value drawn.  A quantity within EPSILON of an integer q >= 0 counts as  *)
(* q; a quantity of 0 succeeds with no dice, no roll counted and total 0.  *)
(***************************************************************************)
\* The call is a Dice node whose operands are number literals.
LiteralDiceCall ==
    /\ call.expr.type = "Dice"
    /\ call.expr.num # None => call.expr.num.type = "Literal"
    /\ call.expr.size.kind = "Value" => call.expr.size.inner.type = "Literal"

IsInteger(v) == IsFinite(v) /\ v.d = 1

\* The integer nearest to v, when v is within EPSILON of it.
NearInteger(v) == IsFinite(v) /\ LeEpsilon(FAbs(FSub(FRound(v), v)))

Negative(v) == IsFinite(v) /\ v.n < 0

QuantityOfCall == call.expr.num.value

FacesOfCall == call.expr.size.inner.value

BadQuantity ==
    /\ call.expr.num # None
    /\ Negative(QuantityOfCall) \/ ~NearInteger(QuantityOfCall)

BadFaces ==
    /\ call.expr.size.kind = "Value"
    /\ FacesOfCall.n <= 0 \/ ~NearInteger(FacesOfCall) \/ FRound(FacesOfCall) = Lit(0)

ValidationErrors ==
    {"dice quantity must be non-negative", "dice quantity must be an integer",
     "die size must be positive", "die size must be an integer",
     "Die size must be positive"}

RefusedUnrolled ==
    /\ Failed
    /\ result.err \in ValidationErrors
    /\ result.ev.rolls = 0
    /\ rng = call.rng

C8_DiceValidation ==
    (Returned /\ LiteralDiceCall) =>
        /\ (BadQuantity \/ BadFaces) => RefusedUnrolled
        /\ (~BadFaces /\ call.expr.num # None /\ ~BadQuantity
               /\ FRound(QuantityOfCall).n <= call.config.max_rolls) =>
              /\ Succeeded
              /\ Len(result.value.dice) = FRound(QuantityOfCall).n
              /\ result.value.quantity = FRound(QuantityOfCall).n
        /\ (~BadFaces /\ call.expr.num = Num(0)) =>
              /\ Succeeded
              /\ result.value.dice = <<>>
              /\ result.total = Lit(0)
              /\ result.ev.rolls = 0
              /\ rng = call.rng

\* MaxQuantity dice of zero faces, refused although the budget allows them.
C8_Witness ==
    /\ Failed
    /\ call.expr = Dice(Num(MaxQuantity), Sized(0))
    /\ call.config.max_rolls = MaxRolls
    /\ result.err = "die size must be positive"
    /\ result.ev.rolls = 0

\* The quantity is negative or not an integer.
NotNaturalQuantity ==
    /\ call.expr.num # None
    /\ (Negative(QuantityOfCall) \/ ~IsInteger(QuantityOfCall))

\* The face count is zero, negative or not an integer.
NotPositiveFaces ==
    /\ call.expr.size.kind = "Value"
    /\ (FacesOfCall.n <= 0 \/ ~IsInteger(FacesOfCall))

\* C8 as stated: the node fails whenever the quantity is negative or not an
\* integer, or the face count is zero, negative or not an integer.
C8_FailsUnlessInteger ==
    (Returned /\ LiteralDiceCall /\ (NotNaturalQuantity \/ NotPositiveFaces))
        => RefusedUnrolled

(***************************************************************************)
(* C9: a Binary node with operator /, // or % whose operands evaluate and  *)
(* whose right operand evaluates to 0 succeeds, and its total is an        *)
(* infinity or NaN, whatever the left operand is.                          *)
(***************************************************************************)
DivisionCall ==
    /\ call.expr.type = "Binary"
    /\ call.expr.operator \in {"Divide", "IntDivide", "Modulo"}

\* Operands that evaluate to 0 whatever the dice show: the literal 0, 1 - 1,
\* no dice at all, the empty set.
ZeroOperands ==
    {Num(0), Binary("Subtract", Num(1), Num(1)), Dice(Num(0), Sized(MaxFaces)),
     SetNode(<<>>, <<>>)}

ClampCall ==
    /\ call.expr.type = "DiceWithOps"
    /\ Len(call.expr.operations) = 1
    /\ call.expr.operations[1].operator \in {"Minimum", "Maximum"}
    /\ call.expr.operations[1].selectors # <<>>
    /\ call.expr.dice.num.value.n <= call.config.max_rolls

ClampOperator == call.expr.operations[1].operator

FirstSelector == call.expr.operations[1].selectors[1]

\* The first selector's target is a number or a signed number, and the
\* number it evaluates to.
FixedTarget == FirstSelector.target.type \in {"Literal", "Unary"}

TargetTotal == evaluate_with_rng(FirstSelector.target, call.config, call.rng).total

NotPositiveTarget == FixedTarget /\ FLe(TargetTotal, Lit(0))

TargetError == "selector target must be positive"

C10_ClampValidation ==
    (Returned /\ ClampCall) =>
        /\ FirstSelector.kind # "Literal" => (Failed /\ result.err = TargetError)
        /\ (FirstSelector.kind = "Literal" /\ NotPositiveTarget) =>
              IF ClampOperator = "Minimum"
              THEN Failed /\ result.err = TargetError
              ELSE /\ Succeeded
                   /\ Len(call.expr.operations[1].selectors) = 1 =>
                         \A i \in DOMAIN result.value.dice :
                            result.value.dice[i].value = TargetTotal
        /\ (FirstSelector.kind = "Literal" /\ FixedTarget /\ FGt(TargetTotal, Lit(0))) =>
              Succeeded

\* A Maximum with threshold 0 that clamped every die of the pool to 0.
C10_Witness ==
    /\ Succeeded
    /\ ClampCall
    /\ ClampOperator = "Maximum"
    /\ FirstSelector = Selector("Literal", Num(0))
    /\ call.expr.dice = Pool
    /\ result.total = Lit(0)
    /\ \A i \in DOMAIN result.value.dice :
          /\ result.value.dice[i].value = Lit(0)
          /\ Len(result.value.dice[i].adjustments) = 1

\* C10 as stated: Maximum, like Minimum, fails when the first selector is not
\* of literal kind or its target is zero or negative.
C10_BothRefuse ==
    (Returned /\ ClampCall /\ (FirstSelector.kind # "Literal" \/ NotPositiveTarget))
        => Failed

(***************************************************************************)
(* C5: annotations have no effect.  Evaluating E and evaluating E wrapped  *)
(* with a list of annotations, from sources in the same state and with     *)
(* the same budget, both fail with the same error or both succeed with the *)
(* same total, the wrapped result holding E's result unchanged; both leave *)
(* the source and the roll counter in the same state.                      *)
(***************************************************************************)
\* r is what evaluating expr gives, wrapped is what evaluating expr with
\* the annotations gives.
SameButWrapped(r, wrapped, annotations) ==
    /\ wrapped.ok = r.ok
    /\ wrapped.err = r.err
    /\ wrapped.ev = r.ev
    /\ r.ok =>
          /\ wrapped.total = r.total
          /\ wrapped.value =
                [type |-> "Annotated", expr |-> EvalResult(r), annotations |-> annotations]

SomeAnnotations == <<"fire", "damage">>

C5_AnnotationsInert ==
    Returned =>
        /\ SameButWrapped(result,
                          evaluate_with_rng(Annotated(call.expr, SomeAnnotations),
                                            call.config, call.rng),
                          SomeAnnotations)
        /\ call.expr.type = "Annotated" =>
              SameButWrapped(evaluate_with_rng(call.expr.expr, call.config, call.rng),
                             result, call.expr.annotations)

\* An annotated pool whose modifier rerolled a die.
C5_Witness ==
    /\ Succeeded
    /\ call.expr.type = "Annotated"
    /\ Len(call.expr.annotations) = 2
    /\ result.value.expr.value.type = "Dice"
    /\ result.ev.rolls > MaxQuantity
    /\ rng.pos = call.rng.pos + result.ev.rolls

(***************************************************************************)
(* C6: a call's outcome is a function of the tree, max_rolls and the       *)
(* values the source yields from the call on.  In a session of calls       *)
(* sharing one source, each call returns what a first call with a source   *)
(* yielding the same values returns; two calls with the same tree, budget  *)
(* and upcoming values return identical result trees; a call fails on the  *)
(* budget only when it has itself drawn max_rolls values.                  *)
(***************************************************************************)
\* The values a source will yield from now on, as a fresh cycle.
Upcoming(r) ==
    [i \in DOMAIN r.draws |-> r.draws[((i - 1 + r.pos) % Len(r.draws)) + 1]]

\* What result r, returned by a call made with source from, tells apart.
Outcome(r, from) ==
    [ok |-> r.ok, err |-> r.err, rolls |-> r.ev.rolls, drawn |-> r.ev.rng.pos - from.pos,
     tree |-> IF r.ok THEN <<EvalResult(r)>> ELSE <<>>]

SameCallAgain ==
    /\ calls > 1
    /\ previous.call.expr = call.expr
    /\ previous.call.config = call.config
    /\ Upcoming(previous.call.rng) = Upcoming(call.rng)

C6_Deterministic ==
    Returned =>
        /\ Outcome(result, call.rng) =
              LET first == Rng(Upcoming(call.rng), 0)
              IN Outcome(evaluate_with_rng(call.expr, call.config, first), first)
        /\ SameCallAgain =>
              Outcome(result, call.rng) = Outcome(previous.result, previous.call.rng)
        /\ (Failed /\ result.err = BudgetError) =>
              rng.pos - call.rng.pos = call.config.max_rolls
        /\ calls > 1 => call.rng = previous.result.ev.rng

\* The last call of a session repeats the one before it, which used up its
\* whole budget, from a source about to yield the same values: it succeeds
\* with the same tree.
C6_Witness ==
    /\ calls = MaxCalls
    /\ SameCallAgain
    /\ \E i, j \in DOMAIN rng.draws : rng.draws[i] # rng.draws[j]
    /\ previous.result.ok
    /\ previous.result.ev.rolls = call.config.max_rolls
    /\ call.config.max_rolls > 0
    /\ Succeeded
    /\ result.ev.rolls = call.config.max_rolls
    /\ EvalResult(result) = EvalResult(previous.result)

(***************************************************************************)
(* C3: every eval_dice call comes to an end, with the result or the error  *)
(* that evaluate_with_rng returns for it: each step of a call that has not *)
(* returned strictly decreases a natural number built from the rolls the   *)
(* budget still allows and the modifiers still to apply, no step leaves an *)
(* unfinished call without a next step, and the call that has returned has *)
(* returned evaluate_with_rng's result. A call whose first modifier is a   *)
(* Reroll or an Explode with a selector that matches every face of the die *)
(* ends with the roll-budget error.                                        *)
(***************************************************************************)
\* The faces of the die of the call.
Faces ==
    IF DiceOf(call.expr).size.kind = "Percent"
    THEN {Lit(10 * digit) : digit \in 0..9}
    ELSE {Lit(face) : face \in 1..FRound(DiceOf(call.expr).size.inner.value).n}

\* A die showing v is selected by a comparison selector with target t.
Compares(kind, v, t) ==
    CASE kind \in {"Literal", "EqualTo"} -> v = t
      [] kind = "NotEqual" -> v # t
      [] kind = "GreaterThan" -> FGt(v, t)
      [] kind = "GreaterThanOrEqual" -> FGe(v, t)
      [] kind = "LessThan" -> FLt(v, t)
      [] kind = "LessThanOrEqual" -> FLe(v, t)
      [] OTHER -> FALSE

\* The call rolls at least one die, and its first modifier is a Reroll or an
\* Explode whose only selector compares with a number every face matches.
MatchesEveryFace ==
    /\ call.expr.type = "DiceWithOps"
    /\ call.expr.dice.num # Num(0)
    /\ call.expr.operations[1].operator \in {"Reroll", "Explode"}
    /\ Len(call.expr.operations[1].selectors) = 1
    /\ call.expr.operations[1].selectors[1].target.type = "Literal"
    /\ Faces # {}
    /\ \A v \in Faces :
          Compares(call.expr.operations[1].selectors[1].kind, v,
                   call.expr.operations[1].selectors[1].target.value)

\* The call returned what evaluate_with_rng returns.
ResultOfCall ==
    /\ result = evaluate_with_rng(call.expr, call.config, call.rng)
    /\ rng = result.ev.rng

\* Rolls the budget still allows, and modifiers not yet applied.
RollsLeft == call.config.max_rolls - frame.ev.rolls

OperationsLeft == Len(Operations) + 1 - frame.op

\* What is left of a running call: modifiers first, then rolls, then the
\* entry into the Explode loop. 0 once the call has returned.
Measure ==
    IF ~Running THEN 0
    ELSE 1 + OperationsLeft * (2 * call.config.max_rolls + 2) + 2 * RollsLeft
           + (IF frame.pc = "ops" THEN 1 ELSE 0)

\* A running call has a next step: the guards of the step actions, spelled out.
CanStep ==
    \/ frame.pc = "explode" /\ frame.ev.rolls <= MaxRolls
    \/ frame.pc = "ops" /\ frame.op > Len(Operations)
    \/ /\ frame.pc = "ops"
       /\ frame.op \in 1..Len(Operations)
       /\ Operations[frame.op].operator \in SetOperator
       /\ frame.ev.rolls <= MaxRolls

\* A running call is within its budget and its modifiers and has a next step;
\* a call that has returned has returned evaluate_with_rng's result.
CallInOrder ==
    /\ Running => (RollsLeft >= 0 /\ OperationsLeft >= 0 /\ CanStep)
    /\ Finished => ResultOfCall
    /\ (Finished /\ MatchesEveryFace) => (Failed /\ result.err = BudgetError)

C3_Terminates ==
    /\ [][Running => Measure' < Measure]_vars
    /\ []CallInOrder

\* 1d1rr1 with the largest budget: stopped by the budget after MaxRolls rolls.
C3_Witness ==
    /\ Finished
    /\ call.expr = DiceWithOps(Dice(None, Sized(1)),
                               <<SetOperation("Reroll", <<Selector("Literal", Num(1))>>)>>)
    /\ call.config.max_rolls = MaxRolls
    /\ result.err = BudgetError
    /\ frame.ev.rolls = MaxRolls
    /\ MatchesEveryFace

(***************************************************************************)
(* C11: a Maximum with threshold 0 on N sized dice succeeds, every die is  *)
(* kept with value 0 and the total is 0; with threshold 1 every die is     *)
(* kept with value 1 and the total is N.                                   *)
(***************************************************************************)
\* The call is NdS with the one modifier Maximum and the one selector t,
\* t a number literal, and the roll budget covers the N dice.
MaximumCall(t) ==
    /\ call.expr.type = "DiceWithOps"
    /\ call.expr.dice.num.type = "Literal"
    /\ call.expr.dice.size.kind = "Value"
    /\ call.expr.operations = <<SetOperation("Maximum", <<Selector("Literal", Num(t))>>)>>
    /\ call.expr.dice.num.value.n <= call.config.max_rolls

AllClampedTo(t) ==
    /\ Succeeded
    /\ Len(result.value.dice) = call.expr.dice.num.value.n
    /\ \A i \in DOMAIN result.value.dice :
          /\ result.value.dice[i].kept
          /\ result.value.dice[i].value = Lit(t)
    /\ result.total = Lit(t * call.expr.dice.num.value.n)

C11_MaximumZeroAndOne ==
    Returned =>
        /\ MaximumCall(0) => AllClampedTo(0)
        /\ MaximumCall(1) => AllClampedTo(1)

\* The pool with Maximum 0: dice that showed different faces, both now 0.
C11_Witness ==
    /\ MaximumCall(0)
    /\ AllClampedTo(0)
    /\ Len(result.value.dice) = MaxQuantity
    /\ \E i, j \in DOMAIN result.value.dice :
          /\ result.value.dice[i].rolls = <<Lit(1)>>
          /\ result.value.dice[j].rolls = <<Lit(MaxFaces)>>

(***************************************************************************)
(* C12: a Minimum with threshold t and no scope selector leaves every kept *)
(* die with a value >= t, a Maximum with a value <= t; NdS mi t with       *)
(* t >= S totals N * t.  With or without a scope selector, a die whose     *)
(* value the clamp changed has the threshold as its value and exactly one  *)
(* more adjustment record, holding the threshold and the value before; a   *)
(* die whose value did not change has the same records as before; no roll  *)
(* history and no kept flag changes.                                       *)
(***************************************************************************)
LastOperation == call.expr.operations[Len(call.expr.operations)]

\* The last modifier of the call is a Minimum or a Maximum whose threshold
\* is a number or a signed number, and the call succeeded.
ClampedLast ==
    /\ Succeeded
    /\ call.expr.type = "DiceWithOps"
    /\ call.expr.operations # <<>>
    /\ LastOperation.operator \in {"Minimum", "Maximum"}
    /\ LastOperation.selectors # <<>>
    /\ LastOperation.selectors[1].target.type \in {"Literal", "Unary"}

Threshold ==
    evaluate_with_rng(LastOperation.selectors[1].target, call.config, call.rng).total

\* The pool as the modifiers before the last one leave it: the same call
\* without its last modifier, on the same randomness.
BeforeLast ==
    evaluate_with_rng(
        IF Len(call.expr.operations) = 1 THEN call.expr.dice
        ELSE DiceWithOps(call.expr.dice,
                         SubSeq(call.expr.operations, 1, Len(call.expr.operations) - 1)),
        call.config, call.rng).value.dice

\* The rolls the modifiers before the last one have counted.
RollsBeforeLast ==
    evaluate_with_rng(
        IF Len(call.expr.operations) = 1 THEN call.expr.dice
        ELSE DiceWithOps(call.expr.dice,
                         SubSeq(call.expr.operations, 1, Len(call.expr.operations) - 1)),
        call.config, call.rng).ev.rolls

AdjustmentRecord(before) ==
    [type |-> LastOperation.operator, threshold |-> Threshold, previous |-> before.value]

ClampedDie(before, after) ==
    /\ after.rolls = before.rolls
    /\ after.kept = before.kept
    /\ after.origin = before.origin
    /\ IF after.value # before.value
       THEN /\ after.value = Threshold
            /\ after.adjustments = Append(before.adjustments, AdjustmentRecord(before))
       ELSE after.adjustments = before.adjustments

WithinThreshold(die) ==
    IF LastOperation.operator = "Minimum" THEN FGe(die.value, Threshold)
    ELSE FLe(die.value, Threshold)

C12_Clamp ==
    ClampedLast =>
        /\ Len(result.value.dice) = Len(BeforeLast)
        /\ \A i \in DOMAIN result.value.dice :
              ClampedDie(BeforeLast[i], result.value.dice[i])
        /\ Len(LastOperation.selectors) = 1 =>
              \A i \in DOMAIN result.value.dice :
                 result.value.dice[i].kept => WithinThreshold(result.value.dice[i])
        /\ (/\ call.expr.operations =
                  <<SetOperation("Minimum", <<Selector("Literal", Num(MaxFaces))>>)>>
            /\ call.expr.dice = Pool) =>
              result.total = Lit(MaxQuantity * MaxFaces)

\* A Minimum that raised one die to the threshold and left the other alone.
C12_Witness ==
    /\ ClampedLast
    /\ LastOperation.operator = "Minimum"
    /\ Len(LastOperation.selectors) = 1
    /\ \E i, j \in DOMAIN result.value.dice :
          /\ result.value.dice[i].kept
          /\ result.value.dice[i].adjustments =
                <<[type |-> "Minimum", threshold |-> Lit(MaxFaces), previous |-> Lit(1)]>>
          /\ result.value.dice[i].rolls = <<Lit(1)>>
          /\ result.value.dice[j].kept
          /\ result.value.dice[j].adjustments = <<>>
          /\ result.value.dice[j].value = Lit(MaxFaces)

(***************************************************************************)
(* C13: Drop on a Set acts as Drop on a dice pool holding the same values  *)
(* and kept flags.  Keep on a Set does not: its selectors run against all  *)
(* elements, kept or not; the first Keep of the modifier list keeps        *)
(* exactly the elements matched, a later Keep adds the elements matched to *)
(* those already kept, so a Keep can turn a not-kept element into a kept   *)
(* one.                                                                    *)
(***************************************************************************)
\* The call is a Set whose last modifier is a Keep or a Drop, and it succeeded.
SetCall ==
    /\ Succeeded
    /\ call.expr.type = "Set"
    /\ call.expr.operations # <<>>
    /\ LastOperation.operator \in {"Keep", "Drop"}

EarlierOperations == SubSeq(call.expr.operations, 1, Len(call.expr.operations) - 1)

\* The elements as the modifiers before the last one leave them.
ElementsBefore ==
    evaluate_with_rng(SetNode(call.expr.elements, EarlierOperations),
                      call.config, call.rng).value.elements

\* A dice pool holding the totals of the elements, with the given kept flags.
PoolOf(elements, kept) ==
    [i \in DOMAIN elements |->
        [DieResult_new(elements[i].value.total, "Original") EXCEPT !.kept = kept[i]]]

\* The kept flags of a pool after one modifier.
KeptAfter(pool, operation) ==
    LET after == apply_dice_operation(pool, operation, Uniform(1, 1), Percent,
                                      Evaluator(call.rng, call.config, 0)).dice
    IN [i \in DOMAIN pool |-> after[i].kept]

KeptOf(elements) == [i \in DOMAIN elements |-> elements[i].kept]

AllKept(elements) == [i \in DOMAIN elements |-> TRUE]

EarlierKeep == \E i \in DOMAIN EarlierOperations : EarlierOperations[i].operator = "Keep"

C13_SetKeepDrop ==
    SetCall =>
        IF LastOperation.operator = "Drop"
        THEN KeptOf(result.value.elements)
               = KeptAfter(PoolOf(ElementsBefore, KeptOf(ElementsBefore)), LastOperation)
        ELSE \A i \in DOMAIN result.value.elements :
                result.value.elements[i].kept
                  = \/ EarlierKeep /\ ElementsBefore[i].kept
                    \/ KeptAfter(PoolOf(ElementsBefore, AllKept(ElementsBefore)),
                                 LastOperation)[i]

\* (1, 2, 2) keep 1, keep highest 1: the second Keep brought back a 2.
C13_Witness ==
    /\ SetCall
    /\ Len(call.expr.operations) = 2
    /\ LastOperation.operator = "Keep"
    /\ EarlierKeep
    /\ \E i \in DOMAIN result.value.elements :
          result.value.elements[i].kept /\ ~ElementsBefore[i].kept
    /\ \E i \in DOMAIN result.value.elements :
          result.value.elements[i].kept /\ ElementsBefore[i].kept

\* C13 as stated: the kept flags of a Set equal those of a dice pool holding
\* the same values under the same modifiers, and a Keep only narrows.
C13_SetLikePool ==
    SetCall =>
        /\ KeptOf(result.value.elements)
             = KeptAfter(PoolOf(ElementsBefore, KeptOf(ElementsBefore)), LastOperation)
        /\ \A i \in DOMAIN result.value.elements :
              result.value.elements[i].kept => ElementsBefore[i].kept

(***************************************************************************)
(* C14: after a Set with Keep modifiers only, an element is kept if and    *)
(* only if a selector of at least one of the Keeps matches it among all    *)
(* elements of the set; (1, 2, 3, 4, 5)k1k2 totals 3, (1, 2, 3, 4, 5)kh1kl1 *)
(* totals 6 and (1, 2, 3)k1k2 totals 3.                                    *)
(***************************************************************************)
\* The call is a Set whose modifiers are all Keeps with number targets, and
\* it succeeded.
KeepsOnlyCall ==
    /\ Succeeded
    /\ call.expr.type = "Set"
    /\ call.expr.operations # <<>>
    /\ \A i \in DOMAIN call.expr.operations :
          /\ call.expr.operations[i].operator = "Keep"
          /\ \A j \in DOMAIN call.expr.operations[i].selectors :
                call.expr.operations[i].selectors[j].target.type = "Literal"

\* The elements that go before element i when the totals are ranked,
\* largest first (highest) or smallest first: ties go by position.
RankedBefore(totals, i, highest) ==
    {j \in DOMAIN totals :
        \/ IF highest THEN FGt(totals[j], totals[i]) ELSE FLt(totals[j], totals[i])
        \/ totals[j] = totals[i] /\ j < i}

\* The selector matches element i among all elements; a count within
\* EPSILON of an integer stands for that integer.
MatchedBy(selector, totals, i) ==
    CASE selector.kind = "Highest" ->
           Cardinality(RankedBefore(totals, i, TRUE)) < FRound(selector.target.value).n
      [] selector.kind = "Lowest" ->
           Cardinality(RankedBefore(totals, i, FALSE)) < FRound(selector.target.value).n
      [] selector.kind = "Literal" -> totals[i] = selector.target.value
      [] OTHER -> FALSE

KeepExample(elements, operations, total) ==
    call.expr = SetNode(elements, operations) => result.total = Lit(total)

C14_KeepUnion ==
    KeepsOnlyCall =>
        /\ \A i \in DOMAIN result.value.elements :
              result.value.elements[i].kept
                = \E o \in DOMAIN call.expr.operations :
                     \E s \in DOMAIN call.expr.operations[o].selectors :
                        MatchedBy(call.expr.operations[o].selectors[s],
                                  totals_of(result.value.elements), i)
        /\ KeepExample(OneToFive, KeepOneKeepTwo, 3)
        /\ KeepExample(OneToFive, KeepHighestKeepLowest, 6)
        /\ KeepExample(SubSeq(OneToFive, 1, 3), KeepOneKeepTwo, 3)

\* (1, 2, 3, 4, 5)kh1kl1: the 5 and the 1 are kept, nothing else.
C14_Witness ==
    /\ KeepsOnlyCall
    /\ call.expr = SetNode(OneToFive, KeepHighestKeepLowest)
    /\ KeptOf(result.value.elements) = <<TRUE, FALSE, FALSE, FALSE, TRUE>>
    /\ result.total = Lit(6)

(***************************************************************************)
(* C15: a Set with a modifier other than Keep or Drop fails, and so does a *)
(* dice pool with one of the reserved operators; neither returns a result. *)
(* When the pool has been rolled and the reserved operator is the first    *)
(* modifier, the error names the operator; when the elements of the Set    *)
(* are numbers and the modifier is the first, the error names it too.      *)
(***************************************************************************)
\* The call is a dice pool with a reserved operator among its modifiers.
ReservedCall ==
    /\ call.expr.type = "DiceWithOps"
    /\ \E i \in DOMAIN call.expr.operations :
          call.expr.operations[i].operator \in ReservedOperators

\* The call is a Set with a modifier that is neither Keep nor Drop.
SetOtherCall ==
    /\ call.expr.type = "Set"
    /\ \E i \in DOMAIN call.expr.operations :
          call.expr.operations[i].operator \notin {"Keep", "Drop"}

NoResultReturned == Failed /\ DOMAIN result = {"ok", "err", "ev"}

FirstOperator == call.expr.operations[1].operator

PoolRolled ==
    /\ call.expr.dice \in ValidDice
    /\ call.expr.dice.num # None
    /\ call.expr.dice.num.value.n <= call.config.max_rolls

C15_Unsupported ==
    Returned =>
        /\ ReservedCall =>
              /\ NoResultReturned
              /\ (PoolRolled /\ FirstOperator \in ReservedOperators) =>
                    result.err = "Set operation " \o FirstOperator
                                    \o " is not supported in the evaluator"
        /\ SetOtherCall =>
              /\ NoResultReturned
              /\ (/\ FirstOperator \notin {"Keep", "Drop"}
                  /\ \A i \in DOMAIN call.expr.elements :
                        call.expr.elements[i].type = "Literal") =>
                    result.err = "Set operation " \o FirstOperator
                                    \o " is not supported for sets"

\* The pool, rolled within its budget, refused for its CountSuccess modifier.
C15_Witness ==
    /\ ReservedCall
    /\ PoolRolled
    /\ FirstOperator = "CountSuccess"
    /\ NoResultReturned
    /\ result.ev.rolls = MaxQuantity
    /\ result.err = "Set operation CountSuccess is not supported in the evaluator"

(***************************************************************************)
(* C20: after a Keep on a dice pool a die is kept if and only if it was    *)
(* kept before and at least one selector of the Keep, run against the dice *)
(* kept before, matches it; a die not kept before is not kept after; no    *)
(* value, roll history or adjustment record changes.                       *)
(***************************************************************************)
\* The last modifier of the call is a Keep with number targets, and the call
\* succeeded.
KeepLast ==
    /\ Succeeded
    /\ call.expr.type = "DiceWithOps"
    /\ call.expr.operations # <<>>
    /\ LastOperation.operator = "Keep"
    /\ \A j \in DOMAIN LastOperation.selectors :
          LastOperation.selectors[j].target.type = "Literal"

\* The kept dice that go before die i when the kept dice are ranked, largest
\* first (highest) or smallest first: ties go by position.
KeptBefore(pool, i, highest) ==
    {j \in DOMAIN pool :
        /\ pool[j].kept
        /\ \/ IF highest THEN FGt(pool[j].value, pool[i].value)
              ELSE FLt(pool[j].value, pool[i].value)
           \/ pool[j].value = pool[i].value /\ j < i}

\* The selector, run against the kept dice of the pool, matches die i; a
\* count within EPSILON of an integer stands for that integer.
Matches(selector, pool, i) ==
    /\ pool[i].kept
    /\ CASE selector.kind = "Highest" ->
              Cardinality(KeptBefore(pool, i, TRUE)) < FRound(selector.target.value).n
         [] selector.kind = "Lowest" ->
              Cardinality(KeptBefore(pool, i, FALSE)) < FRound(selector.target.value).n
         [] OTHER -> Compares(selector.kind, pool[i].value, selector.target.value)

C20_KeepNarrows ==
    KeepLast =>
        /\ Len(result.value.dice) = Len(BeforeLast)
        /\ \A i \in DOMAIN result.value.dice :
              /\ result.value.dice[i].kept
                   = /\ BeforeLast[i].kept
                     /\ \E s \in DOMAIN LastOperation.selectors :
                           Matches(LastOperation.selectors[s], BeforeLast, i)
              /\ ~BeforeLast[i].kept => ~result.value.dice[i].kept
              /\ result.value.dice[i].value = BeforeLast[i].value
              /\ result.value.dice[i].rolls = BeforeLast[i].rolls
              /\ result.value.dice[i].adjustments = BeforeLast[i].adjustments

\* Keep highest 1, lowest 1 after a Drop of the lowest: of three dice showing
\* different faces the dropped one stays out and the two others are kept.
C20_Witness ==
    /\ KeepLast
    /\ Len(call.expr.operations) = 2
    /\ Len(LastOperation.selectors) = 2
    /\ Len(result.value.dice) = MaxQuantity + 1
    /\ NumberKept(BeforeLast) = MaxQuantity
    /\ NumberKept(result.value.dice) = MaxQuantity
    /\ \E i, j \in DOMAIN result.value.dice :
          /\ result.value.dice[i].kept
          /\ result.value.dice[j].kept
          /\ result.value.dice[i].value # result.value.dice[j].value

(***************************************************************************)
(* C16: '()' parses to an empty Set; one expression without a comma and    *)
(* not followed by a set-style modifier parses to that expression itself,  *)
(* with no Set around it; one expression followed by a comma, or several   *)
(* expressions separated by commas, parse to a Set of them; one expression *)
(* without a comma followed by a set-style modifier parses to a Set of one *)
(* element, unless the expression is a Dice or DiceWithOps node, and then  *)
(* the modifier attaches to the dice.                                      *)
(***************************************************************************)
\* parse has returned for a parenthesis the caller wrote.
GroupCall == source.family = "group" /\ parsed # NoParse

\* The trees of the expressions between the parentheses, each parsed alone.
ElementTrees(group) ==
    [i \in DOMAIN group.elements |-> parse_input(group.elements[i]).node]

TailOperations(tail) ==
    <<SetOperation(tail.operator, <<Selector(tail.selector, Num(1))>>)>>

\* The tree of a text that is the parenthesis, of tree node, and the tail.
WithTail(node, tail) ==
    CASE tail.kind = "none" -> node
      [] tail.kind = "binary" -> Binary(tail.operator, node, Num(1))
      [] tail.kind = "modifier" /\ node.type = "Dice" ->
            DiceWithOps(node, TailOperations(tail))
      [] tail.kind = "modifier" /\ node.type = "DiceWithOps" ->
            DiceWithOps(node.dice, node.operations \o TailOperations(tail))
      [] tail.kind = "modifier" /\ node.type = "Set" ->
            SetNode(node.elements, node.operations \o TailOperations(tail))

\* parse succeeded and the parenthesis stands for node.
GroupIs(node) == parsed.ok /\ parsed.node = WithTail(node, source.body.tail)

C16_Parentheses ==
    GroupCall =>
        LET group == source.body
            trees == ElementTrees(group)
            modified == group.tail.kind = "modifier"
        IN /\ (group.elements = <<>> /\ ~group.comma) => GroupIs(SetNode(<<>>, <<>>))
           /\ (Len(trees) = 1 /\ ~group.comma /\ ~modified) => GroupIs(trees[1])
           /\ (trees # <<>> /\ (group.comma \/ Len(trees) > 1)) =>
                  GroupIs(SetNode(trees, <<>>))
           /\ (Len(trees) = 1 /\ ~group.comma /\ modified) =>
                  IF trees[1].type \in {"Dice", "DiceWithOps"}
                  THEN /\ GroupIs(trees[1])
                       /\ parsed.node.type = "DiceWithOps"
                       /\ parsed.node.dice.type = "Dice"
                  ELSE GroupIs(SetNode(trees, <<>>))

\* (1)k1 was parsed to a Set of one element, and so was (1 + 2)kh1.
C16_Witness ==
    /\ GroupCall
    /\ parsed.ok
    /\ source.body.elements \in {<<<<"1">>>>, <<<<"1", "+", "2">>>>}
    /\ ~source.body.comma
    /\ source.body.tail.kind = "modifier"
    /\ parsed.node.type = "Set"
    /\ Len(parsed.node.elements) = 1
    /\ Len(parsed.node.operations) = 1

(***************************************************************************)
(* C17: for an expression of number literals, parentheses, unary signs and *)
(* binary operators, parse yields the tree of the layered grammar: a sign  *)
(* binds tighter than * / // %, these bind tighter than + -, these bind    *)
(* tighter than the comparisons, and each layer folds to the left, so the  *)
(* root is the last operator of the loosest layer present (1 + 3 * 6 is    *)
(* 19, a == b == c is (a == b) == c); a chain of signs evaluates to the    *)
(* operand negated once for each '-' (-+-++---+1 is -1).                   *)
(***************************************************************************)
\* parse has returned for an arithmetic expression the caller wrote.
ArithmeticCall == source.family = "arithmetic" /\ parsed # NoParse

\* The loosest layer among the operators of a chain.
LoosestLayer(operators) ==
    CHOOSE layer \in 1..3 :
        /\ \E i \in DOMAIN operators : operators[i].layer = layer
        /\ \A i \in DOMAIN operators : operators[i].layer >= layer

\* The last operator of the loosest layer.
RootOf(operators) ==
    CHOOSE k \in DOMAIN operators :
        /\ operators[k].layer = LoosestLayer(operators)
        /\ \A j \in DOMAIN operators :
               operators[j].layer = LoosestLayer(operators) => j <= k

RECURSIVE Signed(_, _)
Signed(signs, node) ==
    IF signs = <<>> THEN node
    ELSE Unary(IF Head(signs) = "+" THEN "Plus" ELSE "Minus", Signed(Tail(signs), node))

\* The tree of the layered grammar for a chain.
RECURSIVE LayeredTree(_)
LayeredTree(chain) ==
    IF chain.operators = <<>>
    THEN Signed(chain.operands[1].signs,
                IF chain.operands[1].inner = <<>> THEN Num(chain.operands[1].value)
                ELSE LayeredTree(chain.operands[1].inner[1]))
    ELSE LET k == RootOf(chain.operators)
             n == Len(chain.operators)
         IN Binary(chain.operators[k].operator,
                   LayeredTree(Chain(SubSeq(chain.operands, 1, k),
                                     SubSeq(chain.operators, 1, k - 1))),
                   LayeredTree(Chain(SubSeq(chain.operands, k + 1, n + 1),
                                     SubSeq(chain.operators, k + 1, n))))

Minuses(signs) == Cardinality({i \in DOMAIN signs : signs[i] = "-"})

\* The caller wrote signs and one number.
SignsOnly == source.body.operators = <<>> /\ source.body.operands[1].inner = <<>>

OnePlusThreeTimesSix ==
    PlainChain(<<Written(<<"+">>, "Add", 2), Written(<<"*">>, "Multiply", 3)>>)

C17_Precedence ==
    ArithmeticCall =>
        /\ parsed.ok
        /\ parsed.node = LayeredTree(source.body)
        /\ (calls > 0 /\ SignsOnly) =>
               /\ result.ok
               /\ result.total =
                      Lit(IF Minuses(source.body.operands[1].signs) % 2 = 1
                          THEN -source.body.operands[1].value
                          ELSE source.body.operands[1].value)
        /\ (calls > 0 /\ source.body = OnePlusThreeTimesSix) =>
               result.ok /\ result.total = Lit(19)

\* 1 == 3 == 6 was parsed to (1 == 3) == 6, or 1 + 3 * 6 was rolled.
C17_Witness ==
    /\ ArithmeticCall
    /\ parsed.ok
    /\ \/ /\ Len(source.body.operators) = 2
          /\ \A i \in 1..2 : source.body.operators[i].operator = "Equal"
          /\ parsed.node.left.type = "Binary"
          /\ parsed.node.right = Num(6)
       \/ calls > 0 /\ source.body = OnePlusThreeTimesSix /\ result.total = Lit(19)

(***************************************************************************)
(* C18: parse succeeds only if the whole input is consumed: whenever one   *)
(* full comparison expression has been parsed and the current token is not *)
(* the end of the input, parse returns the Parser error for trailing input *)
(* and no tree.                                                            *)
(***************************************************************************)
\* parse has returned for the text.
Parsed == parsed # NoParse

\* The parser as constructed for the text, and where it stands after one
\* comparison expression.
Constructed == Parser_new(input)

AfterExpression == parse_comparison(Constructed.parser)

InputRemains ==
    /\ Constructed.ok
    /\ AfterExpression.ok
    /\ AfterExpression.parser.cur_token.type # "Eof"

TrailingInput == ParserError("Unexpected trailing input")

C18_TrailingInput ==
    Parsed =>
        /\ InputRemains =>
               ~parsed.ok /\ parsed.err = TrailingInput /\ parsed.node = None
        /\ parsed.ok =>
               /\ parsed.parser.cur_token.type = "Eof"
               /\ parsed.parser.lexer.pos = Len(input)
               /\ parsed.node = AfterExpression.node

\* A text with a full expression and more after it was refused.
C18_Witness ==
    /\ Parsed
    /\ source.family = "parts"
    /\ InputRemains
    /\ AfterExpression.node.type \in {"Literal", "Binary", "Dice", "Set"}
    /\ parsed.err = TrailingInput

(***************************************************************************)
(* C19: parse fails with a Parser error when a modifier keyword (k, p, rr, *)
(* ro, ra, e or !, mi, ma) is not followed by at least one selector, and   *)
(* when modifiers are attached to a node that is neither a Dice, a         *)
(* DiceWithOps nor a Set, such as a number literal; so every SetOperation  *)
(* of a parsed tree has a selector list that is not empty.                 *)
(***************************************************************************)
\* The tokens next_token yields for a text, up to Eof or the first lexical
\* error (an "Error" entry).
RECURSIVE TokensFrom(_)
TokensFrom(lexer) ==
    Let(next_token(lexer), LAMBDA next :
        IF ~next.ok THEN <<Token("Error")>>
        ELSE IF next.token.type = "Eof" THEN <<next.token>>
        ELSE <<next.token>> \o TokensFrom(next.lexer))

TokensOf(text) == TokensFrom(Lexer_new(text))

KeywordTokens ==
    {"Keep", "Drop", "Reroll", "RerollOnce", "RerollAdd", "Explode", "Min", "Max"}

\* The token at position i is a modifier keyword and no selector follows it:
\* the next token cannot start a selector, or it is a selector prefix and the
\* token after it cannot start a selector's target.
KeywordWithoutSelector(tokens, i) ==
    /\ tokens[i].type \in KeywordTokens
    /\ i < Len(tokens)
    /\ \/ /\ tokens[i + 1].type # "Error"
          /\ ~is_selector_start(tokens[i + 1])
       \/ /\ tokens[i + 1].type \in DOMAIN SelectorPrefix
          /\ i + 1 < Len(tokens)
          /\ tokens[i + 2].type # "Error"
          /\ ~selector_value_starts(tokens[i + 2])

\* Some modifier keyword of the text has no selector after it.
SelectorMissing(tokens) ==
    \E i \in DOMAIN tokens : KeywordWithoutSelector(tokens, i)

\* The caller wrote a modifier with a selector right after an expression
\* that ends in a number.
NumberBases ==
    {<<"1">>, <<"1", ".", "5">>, <<"-", "1">>, <<"1", "+", "2">>}

SomeSelectors ==
    {<<"1">>, <<"h", "1">>, <<"(", "1", ")">>, <<"-", "1">>, <<"1", "d", "2", "k", "1">>}

ModifiedNumber ==
    /\ source.family = "parts"
    /\ Len(source.body) = 3
    /\ source.body[1] \in NumberBases
    /\ source.body[2] \in Keywords
    /\ source.body[3] \in SomeSelectors

\* The SetOperations anywhere in a tree, selector targets included.
RECURSIVE SetOperationsIn(_)
SetOperationsOfList(operations) ==
    {operations[i] : i \in DOMAIN operations}
    \cup UNION {UNION {SetOperationsIn(operations[i].selectors[j].target) :
                          j \in DOMAIN operations[i].selectors} :
                  i \in DOMAIN operations}

SetOperationsIn(node) ==
    CASE node.type = "Unary" -> SetOperationsIn(node.operand)
      [] node.type = "Binary" ->
            SetOperationsIn(node.left) \cup SetOperationsIn(node.right)
      [] node.type = "Dice" ->
            SetOperationsIn(node.num) \cup SetOperationsIn(node.size.inner)
      [] node.type = "DiceWithOps" ->
            SetOperationsIn(node.dice) \cup SetOperationsOfList(node.operations)
      [] node.type = "Set" ->
            UNION {SetOperationsIn(node.elements[i]) : i \in DOMAIN node.elements}
            \cup SetOperationsOfList(node.operations)
      [] node.type = "Annotated" -> SetOperationsIn(node.expr)
      [] OTHER -> {}

C19_ModifierErrors ==
    Parsed =>
        /\ SelectorMissing(TokensOf(input)) =>
               ~parsed.ok /\ parsed.err.kind = "Parser" /\ parsed.node = None
        /\ ModifiedNumber =>
               /\ ~parsed.ok
               /\ parsed.err =
                      ParserError("Set operations can only be applied to dice or sets")
        /\ parsed.ok =>
               \A operation \in SetOperationsIn(parsed.node) : operation.selectors # <<>>

\* 1d2k, d%rr) or (1, 2)mi] was refused.
C19_Witness ==
    /\ Parsed
    /\ source.family = "parts"
    /\ Len(source.body) = 3
    /\ source.body[1] \in {<<"1", "d", "2">>, <<"d", "%">>, <<"(", "1", ",", "2", ")">>}
    /\ source.body[3] \in {<<>>, <<")">>, <<"]">>}
    /\ SelectorMissing(TokensOf(input))
    /\ ~parsed.ok
    /\ parsed.err.kind = "Parser"

(***************************************************************************)
(* C21: a Drop, on a dice pool or on a Set, turns every member that one of *)
(* its selectors matches among the members kept before it into a not-kept  *)
(* one and changes nothing else: a member is kept after the Drop if and    *)
(* only if it was kept before and no selector matches it, so a Drop never  *)
(* makes a member kept and the Drops of a chain each run against what the  *)
(* modifier before left kept; (1, 2, 3, 4, 5)ph1pl1 totals 9 and           *)
(* (1, 2, 3, 4, 5)p1p2 totals 12.                                          *)
(***************************************************************************)
\* The last modifier of the call is a Drop with number targets, and the call
\* succeeded.
DropLast ==
    /\ Succeeded
    /\ call.expr.type \in {"DiceWithOps", "Set"}
    /\ call.expr.operations # <<>>
    /\ LastOperation.operator = "Drop"
    /\ \A j \in DOMAIN LastOperation.selectors :
          LastOperation.selectors[j].target.type = "Literal"

\* Member i of the pool is kept once the Drop has acted on the pool.
KeptAfterDrop(pool, i) ==
    /\ pool[i].kept
    /\ \A s \in DOMAIN LastOperation.selectors :
          ~Matches(LastOperation.selectors[s], pool, i)

DroppedDice(before, after) ==
    /\ Len(after) = Len(before)
    /\ \A i \in DOMAIN after :
          /\ after[i].kept = KeptAfterDrop(before, i)
          /\ after[i].kept => before[i].kept
          /\ after[i].value = before[i].value
          /\ after[i].rolls = before[i].rolls
          /\ after[i].origin = before[i].origin
          /\ after[i].adjustments = before[i].adjustments

DroppedElements(before, after) ==
    /\ Len(after) = Len(before)
    /\ \A i \in DOMAIN after :
          /\ after[i].kept = KeptAfterDrop(PoolOf(before, KeptOf(before)), i)
          /\ after[i].kept => before[i].kept
          /\ after[i].value = before[i].value

C21_DropRemoves ==
    DropLast =>
        /\ IF call.expr.type = "Set"
           THEN DroppedElements(ElementsBefore, result.value.elements)
           ELSE DroppedDice(BeforeLast, result.value.dice)
        /\ call.expr = SetNode(OneToFive, DropHighestDropLowest) => result.total = Lit(9)
        /\ call.expr = SetNode(OneToFive, DropOneDropTwo) => result.total = Lit(12)

\* (1, 2, 3, 4, 5)ph1pl1: the second Drop found the 5 not kept, removed the
\* 1 and left 2 + 3 + 4.
C21_Witness ==
    /\ DropLast
    /\ call.expr = SetNode(OneToFive, DropHighestDropLowest)
    /\ ~ElementsBefore[5].kept
    /\ ElementsBefore[1].kept
    /\ KeptOf(result.value.elements) = <<FALSE, TRUE, TRUE, TRUE, FALSE>>
    /\ result.total = Lit(9)

(***************************************************************************)
(* C22: when a Reroll whose selectors compare with numbers succeeds, no    *)
(* kept die matches a selector any more (1dS rr<S ends at S) and the pool  *)
(* has as many dice as before; a rerolled die's history is the history     *)
(* before with one value appended per reroll, every value it was rerolled  *)
(* from matched a selector, and its value is the last history entry; a die *)
(* that never matched is unchanged; one roll is counted per appended       *)
(* value.                                                                  *)
(***************************************************************************)
\* The selectors of the modifier compare the die's value with a number.
ComparesWithNumbers(operation) ==
    \A j \in DOMAIN operation.selectors :
       /\ operation.selectors[j].kind \notin {"Highest", "Lowest"}
       /\ operation.selectors[j].target.type = "Literal"

\* The last modifier of the call is the named one, its selectors compare
\* with numbers, and the call succeeded.
LastIs(operator) ==
    /\ Succeeded
    /\ call.expr.type = "DiceWithOps"
    /\ call.expr.operations # <<>>
    /\ LastOperation.operator = operator
    /\ ComparesWithNumbers(LastOperation)

\* A kept die showing v is selected by the last modifier.
Selects(v) ==
    \E s \in DOMAIN LastOperation.selectors :
       Compares(LastOperation.selectors[s].kind, v,
                LastOperation.selectors[s].target.value)

\* The values the last modifier appended to the history of a die.
Appended(before, after) == Len(after.rolls) - Len(before.rolls)

RECURSIVE SumOver(_, _)
SumOver(counts, from) ==
    IF from > Len(counts) THEN 0 ELSE counts[from] + SumOver(counts, from + 1)

RerolledDie(before, after) ==
    /\ after.kept = before.kept
    /\ after.origin = before.origin
    /\ after.adjustments = before.adjustments
    /\ Appended(before, after) >= 0
    /\ SubSeq(after.rolls, 1, Len(before.rolls)) = before.rolls
    /\ ~(after.kept /\ Selects(after.value))
    /\ IF Appended(before, after) = 0
       THEN after.value = before.value
       ELSE /\ before.kept /\ Selects(before.value)
            /\ after.value = after.rolls[Len(after.rolls)]
            /\ \A k \in (Len(before.rolls) + 1)..(Len(after.rolls) - 1) :
                  Selects(after.rolls[k])

RerolledPool(before, after) ==
    /\ Len(after) = Len(before)
    /\ \A i \in DOMAIN after : RerolledDie(before[i], after[i])
    /\ result.ev.rolls - RollsBeforeLast
         = SumOver([i \in DOMAIN after |-> Appended(before[i], after[i])], 1)

C22_RerollUntilNoMatch ==
    LastIs("Reroll") => RerolledPool(BeforeLast, result.value.dice)

\* 1dS rr<S: the die showed 1, was rerolled to 1, and rerolled again to S.
C22_Witness ==
    /\ LastIs("Reroll")
    /\ call.expr.dice = Dice(Num(1), Sized(MaxFaces))
    /\ LastOperation.selectors = <<Selector("LessThan", Num(MaxFaces))>>
    /\ result.value.dice[1].rolls = <<Lit(1), Lit(1), Lit(MaxFaces)>>
    /\ result.value.dice[1].value = Lit(MaxFaces)

(***************************************************************************)
(* C23: a RerollOnce selects once and rerolls each selected die once: the  *)
(* history of a selected die grows by one entry, which becomes its value   *)
(* and is not checked again (1d1ro1 succeeds with total 1); every other    *)
(* die is unchanged, the pool has as many dice as before, and as many      *)
(* rolls are counted as dice were selected.                                *)
(***************************************************************************)
RerolledOnceDie(before, after) ==
    /\ after.kept = before.kept
    /\ after.origin = before.origin
    /\ after.adjustments = before.adjustments
    /\ IF before.kept /\ Selects(before.value)
       THEN /\ Len(after.rolls) = Len(before.rolls) + 1
            /\ SubSeq(after.rolls, 1, Len(before.rolls)) = before.rolls
            /\ after.value = after.rolls[Len(after.rolls)]
       ELSE /\ after.rolls = before.rolls
            /\ after.value = before.value

NumberSelected(pool) ==
    Cardinality({i \in DOMAIN pool : pool[i].kept /\ Selects(pool[i].value)})

RerolledOncePool(before, after) ==
    /\ Len(after) = Len(before)
    /\ \A i \in DOMAIN after : RerolledOnceDie(before[i], after[i])
    /\ result.ev.rolls - RollsBeforeLast = NumberSelected(before)

OneSidedRerollOnce ==
    DiceWithOps(Dice(Num(1), Sized(1)),
                <<SetOperation("RerollOnce", <<Selector("Literal", Num(1))>>)>>)

C23_RerollOnce ==
    /\ LastIs("RerollOnce") => RerolledOncePool(BeforeLast, result.value.dice)
    /\ (Returned /\ call.expr = OneSidedRerollOnce /\ call.config.max_rolls >= 2) =>
          result.ok /\ result.total = Lit(1)

\* A pool of which one die was selected and rerolled to a value that still
\* matches, the other left alone.
C23_Witness ==
    /\ LastIs("RerollOnce")
    /\ Len(result.value.dice) = MaxQuantity
    /\ NumberSelected(BeforeLast) = 1
    /\ NumberSelected(result.value.dice) = 1
    /\ \E i \in DOMAIN result.value.dice :
          /\ Len(result.value.dice[i].rolls) = 2
          /\ Selects(result.value.dice[i].value)

(***************************************************************************)
(* C24: a RerollAdd that selects m dice appends m dice to the end of the   *)
(* pool, each kept, of origin RerollAdd and with a history of one value;   *)
(* every die that was in the pool before keeps its position, value,        *)
(* history and kept flag (1d1ra1 totals 2); the new dice are not checked   *)
(* against the selectors.                                                  *)
(***************************************************************************)
\* A die as roll_die and DieResult::new make it, of the given origin.
NewDie(die, origin) ==
    /\ die.kept
    /\ die.origin = origin
    /\ die.rolls = <<die.value>>
    /\ die.adjustments = <<>>

SameDie(before, after) ==
    /\ after.value = before.value
    /\ after.rolls = before.rolls
    /\ after.kept = before.kept
    /\ after.origin = before.origin
    /\ after.adjustments = before.adjustments

RerollAddedPool(before, after) ==
    /\ Len(after) = Len(before) + NumberSelected(before)
    /\ \A i \in DOMAIN before : SameDie(before[i], after[i])
    /\ \A i \in (Len(before) + 1)..Len(after) : NewDie(after[i], "RerollAdd")
    /\ result.ev.rolls - RollsBeforeLast = NumberSelected(before)

OneSidedRerollAdd ==
    DiceWithOps(Dice(Num(1), Sized(1)),
                <<SetOperation("RerollAdd", <<Selector("Literal", Num(1))>>)>>)

C24_RerollAdd ==
    /\ LastIs("RerollAdd") => RerollAddedPool(BeforeLast, result.value.dice)
    /\ (Returned /\ call.expr = OneSidedRerollAdd /\ call.config.max_rolls >= 2) =>
          result.ok /\ result.total = Lit(2)

\* 1d1ra1: one die added, which matches the selector and brought no further
\* die.
C24_Witness ==
    /\ LastIs("RerollAdd")
    /\ call.expr = OneSidedRerollAdd
    /\ Len(result.value.dice) = 2
    /\ result.value.dice[2].origin = "RerollAdd"
    /\ Selects(result.value.dice[2].value)
    /\ result.total = Lit(2)

(***************************************************************************)
(* C25: while an Explode whose selectors compare with numbers runs, its    *)
(* work queue holds, in ascending order, the kept dice of the pool that    *)
(* match a selector: the dice selected at the start, and each appended die *)
(* if and only if it matches; one die, kept and of origin Explosion, has   *)
(* been appended per queue entry worked off, and the dice that were in the *)
(* pool before are unchanged.  So when the Explode has succeeded the       *)
(* number of dice it appended is the number of kept dice of the final pool *)
(* that match a selector, and 1dS eS never totals a multiple of S (1d2e2   *)
(* totals an odd number).                                                  *)
(***************************************************************************)
\* The last modifier of the call is an Explode whose selectors compare with
\* numbers.
ExplodeIsLast ==
    /\ call.expr.type = "DiceWithOps"
    /\ call.expr.operations # <<>>
    /\ LastOperation.operator = "Explode"
    /\ ComparesWithNumbers(LastOperation)

\* The queue lists, in ascending order, the kept dice that match a selector.
QueueOfMatches(queue, pool) ==
    /\ \A a, b \in DOMAIN queue : a < b => queue[a] < queue[b]
    /\ seq_set(queue) = {i \in DOMAIN pool : pool[i].kept /\ Selects(pool[i].value)}

\* The pool is the pool before followed by `appended` dice of an Explode.
ExplodedPool(before, pool, appended) ==
    /\ Len(pool) = Len(before) + appended
    /\ \A i \in DOMAIN before : SameDie(before[i], pool[i])
    /\ \A i \in (Len(before) + 1)..Len(pool) : NewDie(pool[i], "Explosion")

OneDieExplode ==
    DiceWithOps(Dice(Num(1), Sized(MaxFaces)),
                <<SetOperation("Explode", <<Selector("Literal", Num(MaxFaces))>>)>>)

C25_ExplodeQueue ==
    ExplodeIsLast =>
        /\ (frame.pc = "explode" /\ frame.op = Len(call.expr.operations)) =>
              /\ frame.idx <= Len(frame.queue)
              /\ QueueOfMatches(frame.queue, frame.dice)
              /\ ExplodedPool(BeforeLast, frame.dice, frame.idx)
              /\ frame.ev.rolls = RollsBeforeLast + frame.idx
        /\ frame.pc = "done" =>
              /\ ExplodedPool(BeforeLast, result.value.dice,
                              NumberSelected(result.value.dice))
              /\ result.ev.rolls = RollsBeforeLast + NumberSelected(result.value.dice)
              /\ call.expr = OneDieExplode => result.total.n % MaxFaces # 0

\* 1dS eS: the die showed S, the die it brought showed S too and brought a
\* third, which did not.
C25_Witness ==
    /\ ExplodeIsLast
    /\ call.expr = OneDieExplode
    /\ frame.pc = "done"
    /\ Len(result.value.dice) = 3
    /\ result.value.dice[2].value = Lit(MaxFaces)
    /\ result.value.dice[3].value # Lit(MaxFaces)
    /\ result.value.dice[3].origin = "Explosion"

\* An Explode at work: a die has been appended, matches and waits in the
\* queue.
C25_AtWork ==
    /\ ExplodeIsLast
    /\ frame.pc = "explode"
    /\ frame.idx = 1
    /\ Len(frame.queue) = 2
    /\ frame.queue[2] = Len(frame.dice)

(***************************************************************************)
(* C26: a Minimum or Maximum clamps a die if and only if the die is beyond *)
(* the threshold and is affected: with one selector the affected dice are  *)
(* the kept dice, with more they are the dice that a selector after the    *)
(* first, run against the kept dice as for Keep and Drop, matches (the     *)
(* second, or the third, and so on).  Every other die, and so every        *)
(* not-kept die, keeps its value and gains no adjustment record.           *)
(***************************************************************************)
\* The last modifier is a Minimum or Maximum whose scope selectors have
\* number targets, and the call succeeded.
ScopedClampLast ==
    /\ ClampedLast
    /\ \A j \in DOMAIN LastOperation.selectors :
          LastOperation.selectors[j].target.type = "Literal"

\* Die i is matched by one of the selectors `scope` of the last modifier, or
\* is kept when there are no such selectors.
AffectedBy(scope, pool, i) ==
    IF Len(LastOperation.selectors) = 1 THEN pool[i].kept
    ELSE \E s \in scope : Matches(LastOperation.selectors[s], pool, i)

BeyondThreshold(die) ==
    IF LastOperation.operator = "Minimum" THEN FLt(die.value, Threshold)
    ELSE FGt(die.value, Threshold)

\* The clamp acted on the dice that `scope` affects and on no other.
ClampedWithin(scope, before, after) ==
    /\ Len(after) = Len(before)
    /\ \A i \in DOMAIN after :
          IF AffectedBy(scope, before, i) /\ BeyondThreshold(before[i])
          THEN /\ after[i].value = Threshold
               /\ after[i].adjustments
                    = Append(before[i].adjustments, AdjustmentRecord(before[i]))
          ELSE /\ after[i].value = before[i].value
               /\ after[i].adjustments = before[i].adjustments

C26_ClampScope ==
    ScopedClampLast =>
        /\ ClampedWithin(2..Len(LastOperation.selectors), BeforeLast, result.value.dice)
        /\ \A i \in DOMAIN BeforeLast :
              ~BeforeLast[i].kept => SameDie(BeforeLast[i], result.value.dice[i])

\* Of three dice one is not kept and beyond the threshold, one is kept,
\* beyond the threshold and outside the scope, and neither was clamped; a
\* third was.
C26_Witness ==
    /\ ScopedClampLast
    /\ Len(LastOperation.selectors) = 2
    /\ \E i, j, k \in DOMAIN BeforeLast :
          /\ ~BeforeLast[i].kept /\ BeyondThreshold(BeforeLast[i])
          /\ result.value.dice[i].adjustments = <<>>
          /\ BeforeLast[j].kept /\ BeyondThreshold(BeforeLast[j])
          /\ result.value.dice[j].adjustments = <<>>
          /\ result.value.dice[k].adjustments # <<>>

\* C26 as stated: with a second selector, no die outside the dice the second
\* selector selects is clamped.
C26_SecondSelectorOnly ==
    ScopedClampLast => ClampedWithin({2}, BeforeLast, result.value.dice)

(***************************************************************************)
(* C27: a Highest (Lowest) selector whose count evaluates to v selects the *)
(* first min(k, number eligible) of the eligible members ranked by value,  *)
(* greatest (least) first and the lower index first among equal values.    *)
(* The eligible members are the kept ones, except for a Keep on a Set,     *)
(* where every element is eligible.  The evaluation fails when v is        *)
(* negative or further than EPSILON from the nearest integer; otherwise k  *)
(* is the nearest integer, no limit when v is infinite and 0 when v is not *)
(* a number.                                                               *)
(***************************************************************************)
\* The last modifier of the call is a Keep or Drop with one Highest or
\* Lowest selector whose count rolls no dice, and the call has returned.
CountedLast ==
    /\ Returned
    /\ call.expr.type \in {"DiceWithOps", "Set"}
    /\ call.expr.operations # <<>>
    /\ LastOperation.operator \in {"Keep", "Drop"}
    /\ Len(LastOperation.selectors) = 1
    /\ LastOperation.selectors[1].kind \in {"Highest", "Lowest"}
    /\ LastOperation.selectors[1].target.type \in {"Literal", "Unary", "Binary"}

\* The same call without its last modifier, on the same randomness.
PrefixResult ==
    evaluate_with_rng(
        IF call.expr.type = "Set" THEN SetNode(call.expr.elements, EarlierOperations)
        ELSE IF Len(call.expr.operations) = 1 THEN call.expr.dice
        ELSE DiceWithOps(call.expr.dice, EarlierOperations),
        call.config, call.rng)

\* The members the prefix leaves, as a pool of values and kept flags.
MembersOf(prefix) ==
    IF call.expr.type = "Set"
    THEN PoolOf(prefix.value.elements, KeptOf(prefix.value.elements))
    ELSE prefix.value.dice

KeptNow ==
    IF call.expr.type = "Set" THEN KeptOf(result.value.elements)
    ELSE [i \in DOMAIN result.value.dice |-> result.value.dice[i].kept]

Count == evaluate_with_rng(LastOperation.selectors[1].target, call.config, call.rng).total

RejectedCount(v) == FLt(v, Lit(0)) \/ GtEpsilon(FAbs(FSub(FRound(v), v)))

\* The number of members a count of v selects among n eligible ones.
CountLimit(v, n) ==
    IF IsNaN(v) THEN 0
    ELSE IF IsInf(v) THEN n
    ELSE IF FRound(v).n < n THEN FRound(v).n ELSE n

\* Member j goes before member i in the ranking of the last selector.
GoesBefore(pool, j, i) ==
    \/ IF LastOperation.selectors[1].kind = "Highest"
       THEN FGt(pool[j].value, pool[i].value)
       ELSE FLt(pool[j].value, pool[i].value)
    \/ pool[j].value = pool[i].value /\ j < i

\* The first `limit` of the eligible members in that ranking.
Chosen(pool, eligible, limit) ==
    {i \in eligible :
        Cardinality({j \in eligible : GoesBefore(pool, j, i)}) < limit}

KeptMembers(pool) == {i \in DOMAIN pool : pool[i].kept}

\* The kept flags are those the last modifier makes when its selector
\* chooses among the eligible members.
SelectedAmong(pool, eligible, kept_now) ==
    /\ DOMAIN kept_now = DOMAIN pool
    /\ \A i \in DOMAIN pool :
          kept_now[i]
            = CASE LastOperation.operator = "Drop" ->
                     /\ pool[i].kept
                     /\ i \notin Chosen(pool, eligible,
                                        CountLimit(Count, Cardinality(eligible)))
                [] call.expr.type = "DiceWithOps" ->
                     /\ pool[i].kept
                     /\ i \in Chosen(pool, eligible,
                                     CountLimit(Count, Cardinality(eligible)))
                [] OTHER ->
                     \/ i \in Chosen(pool, eligible,
                                     CountLimit(Count, Cardinality(eligible)))
                     \/ EarlierKeep /\ pool[i].kept

EligibleMembers(pool) ==
    IF call.expr.type = "Set" /\ LastOperation.operator = "Keep" THEN DOMAIN pool
    ELSE KeptMembers(pool)

CountErrors == {"selector must be non-negative", "selector must be an integer"}

C27_HighestLowest ==
    (CountedLast /\ PrefixResult.ok) =>
        IF RejectedCount(Count)
        THEN ~result.ok /\ result.err \in CountErrors
        ELSE /\ result.ok
             /\ SelectedAmong(MembersOf(PrefixResult),
                              EligibleMembers(MembersOf(PrefixResult)), KeptNow)

\* Of three dice one is not kept, two show the same value, and the Keep of
\* the lowest 1 kept the first of the two.
C27_Witness ==
    /\ CountedLast
    /\ Succeeded
    /\ call.expr.type = "DiceWithOps"
    /\ LastOperation = SetOperation("Keep", <<Selector("Lowest", Num(1))>>)
    /\ \E i, j, k \in DOMAIN result.value.dice :
          /\ i < j
          /\ ~BeforeLast[k].kept
          /\ result.value.dice[i].value = result.value.dice[j].value
          /\ result.value.dice[i].kept
          /\ BeforeLast[j].kept /\ ~result.value.dice[j].kept

\* A count that is not a number was taken as 0 and an infinite one as no
\* limit.
C27_OddCount ==
    /\ CountedLast
    /\ Succeeded
    /\ IsInf(Count)
    /\ LastOperation.operator = "Drop"
    /\ \A i \in DOMAIN KeptNow : ~KeptNow[i]

\* C27 as stated: the members are chosen among the kept ones, and the
\* evaluation fails unless the count is a non-negative integer.
C27_KeptOnlyIntegerOnly ==
    (CountedLast /\ PrefixResult.ok) =>
        IF ~(IsFinite(Count) /\ Count.d = 1 /\ Count.n >= 0)
        THEN ~result.ok
        ELSE /\ result.ok
             /\ SelectedAmong(MembersOf(PrefixResult),
                              KeptMembers(MembersOf(PrefixResult)), KeptNow)

(***************************************************************************)
(* C28: in every DiceRoll of a result the first `quantity` dice have       *)
(* origin Original and every later die has origin RerollAdd or Explosion.  *)
(* The original dice stand in the order they were rolled; a modifier       *)
(* leaves every die of the pool at its position, with its origin and with  *)
(* its history extended at most, and appends the dice it creates in the    *)
(* order it rolls them; so no die is removed or moved, the pool never      *)
(* shrinks and the recorded quantity is the number of original dice.       *)
(***************************************************************************)
DiceRollShape(roll) ==
    /\ Len(roll.dice) >= roll.quantity
    /\ \A i \in DOMAIN roll.dice :
          IF i <= roll.quantity THEN roll.dice[i].origin = "Original"
          ELSE roll.dice[i].origin \in {"RerollAdd", "Explosion"}

\* The value of the k-th roll of the call, when every roll of the call is a
\* roll of the pool's die.
DrawnValue(k) ==
    IF DiceOfCall.size.kind = "Percent"
    THEN Lit(10 * sample(Uniform(0, 9), [call.rng EXCEPT !.pos = @ + k - 1]))
    ELSE Lit(sample(Uniform(1, result.value.size),
                    [call.rng EXCEPT !.pos = @ + k - 1]))

\* Every roll the last modifier makes is a roll of the pool's die.
RollsThePoolOnly ==
    \A i \in DOMAIN call.expr.operations :
       \A j \in DOMAIN call.expr.operations[i].selectors :
          call.expr.operations[i].selectors[j].target.type # "Dice"

AppendedOrigin ==
    IF LastOperation.operator = "RerollAdd" THEN "RerollAdd" ELSE "Explosion"

\* The last modifier kept the dice of `before` in place and appended the
\* dice it rolled, in the order it rolled them.
GrownInPlace(prefix, after) ==
    /\ result.value.quantity = prefix.value.quantity
    /\ Len(after) >= Len(prefix.value.dice)
    /\ \A i \in DOMAIN prefix.value.dice :
          /\ after[i].origin = prefix.value.dice[i].origin
          /\ Len(after[i].rolls) >= Len(prefix.value.dice[i].rolls)
          /\ SubSeq(after[i].rolls, 1, Len(prefix.value.dice[i].rolls))
               = prefix.value.dice[i].rolls
    /\ \A i \in (Len(prefix.value.dice) + 1)..Len(after) :
          /\ NewDie(after[i], AppendedOrigin)
          /\ RollsThePoolOnly =>
                after[i].value = DrawnValue(prefix.ev.rolls + i - Len(prefix.value.dice))

C28_PoolOrder ==
    Succeeded =>
        /\ \A k \in DOMAIN SubResults(EvalResult(result)) :
              SubResults(EvalResult(result))[k].value.type = "Dice" =>
                 DiceRollShape(SubResults(EvalResult(result))[k].value)
        /\ call.expr.type = "Dice" =>
              /\ Len(result.value.dice) = result.value.quantity
              /\ \A i \in DOMAIN result.value.dice :
                    result.value.dice[i].rolls = <<DrawnValue(i)>>
        /\ (call.expr.type = "DiceWithOps" /\ call.expr.operations # <<>>) =>
              GrownInPlace(PrefixResult, result.value.dice)

\* A RerollAdd and then an Explode: two original dice, a die the RerollAdd
\* added and a die the Explode added after it, showing different values.
C28_Witness ==
    /\ Succeeded
    /\ call.expr.type = "DiceWithOps"
    /\ Len(call.expr.operations) = 2
    /\ result.value.quantity = MaxQuantity
    /\ Len(result.value.dice) = MaxQuantity + 2
    /\ Len(PrefixResult.value.dice) = MaxQuantity + 1
    /\ result.value.dice[MaxQuantity + 1].origin = "RerollAdd"
    /\ result.value.dice[MaxQuantity + 2].origin = "Explosion"
    /\ result.value.dice[MaxQuantity + 1].value # result.value.dice[MaxQuantity + 2].value
    /\ result.value.dice[1].value # result.value.dice[2].value

(***************************************************************************)
(* C29: within one application of a Reroll or an Explode the target of a   *)
(* selector is evaluated once: when the target rolls one die, the call     *)
(* counts one roll for the target and one for every value in the           *)
(* histories of the pool.                                                  *)
(***************************************************************************)
\* The call's only modifier is a Reroll or an Explode with one selector
\* whose target rolls one die, and the call succeeded.
RolledTarget ==
    /\ Succeeded
    /\ call.expr.type = "DiceWithOps"
    /\ Len(call.expr.operations) = 1
    /\ LastOperation.operator \in {"Reroll", "Explode"}
    /\ Len(LastOperation.selectors) = 1
    /\ LastOperation.selectors[1].target = Dice(Num(1), Sized(MaxFaces))

\* The rolls the histories of the pool record.
PoolRolls(pool) == SumOver([i \in DOMAIN pool |-> Len(pool[i].rolls)], 1)

C29_TargetRolledOnce ==
    RolledTarget => result.ev.rolls = PoolRolls(result.value.dice) + 1

\* 1dS rr<1dS: the die was rerolled once and the target was rolled twice,
\* before the reroll and after it.
C29_Witness ==
    /\ RolledTarget
    /\ LastOperation.operator = "Reroll"
    /\ PoolRolls(result.value.dice) = 2
    /\ result.ev.rolls = 4

\* What the evaluator does: every selection pass rolls the target, and a
\* one-die pool takes as many passes as its histories record rolls.
C29_TargetRolledPerPass ==
    RolledTarget => result.ev.rolls = 2 * PoolRolls(result.value.dice)

(***************************************************************************)
(* C30: a '+' or '-' written after the selector of a modifier is the       *)
(* additive operator, and its left operand is the dice or set with its     *)
(* modifiers: M + 2 parses to Binary Add(tree of M, 2), as 4d6kh3 + 2      *)
(* parses to Binary Add(DiceWithOps(4d6, [Keep highest 3]), 2).            *)
(***************************************************************************)
\* The caller wrote a dice or set with a modifier, an operator and a number,
\* and parse has returned.
SumParsed == parsed # NoParse /\ source.family = "sum"

OperatorNamed(text) ==
    CASE text = "+" -> "Add" [] text = "-" -> "Subtract" [] text = "*" -> "Multiply"

SignNamed(text) == IF text = "+" THEN "Plus" ELSE "Minus"

\* The tree of the dice or set with its modifiers, and of the number.
LeftTree == parse_input(source.body.left).node

RightTree == parse_input(source.body.right).node

C30_AdditiveAfterSelector ==
    (SumParsed /\ source.body.operator \in {"+", "-"}) =>
        /\ parsed.ok
        /\ parsed.node = Binary(OperatorNamed(source.body.operator), LeftTree, RightTree)

\* The tree with one more selector at the end of its last modifier.
WithSelector(tree, selector) ==
    [tree EXCEPT !.operations[Len(tree.operations)].selectors = Append(@, selector)]

\* What the parser does: the sign and the number become a further selector
\* of the modifier, and only '*' is taken as the operator.
C30_SignStartsSelector ==
    SumParsed =>
        /\ parsed.ok
        /\ parsed.node
             = IF source.body.operator = "*"
               THEN Binary("Multiply", LeftTree, RightTree)
               ELSE WithSelector(LeftTree,
                                 Selector("Literal",
                                          Unary(SignNamed(source.body.operator),
                                                RightTree)))

\* 1d2kh1 + 2 has been parsed and rolled: the tree is the dice with one
\* Keep of two selectors, and the total is the die's value, not 2 more.
C30_Witness ==
    /\ SumParsed
    /\ source.body.left = <<"1", "d", "2", "k", "h", "1">>
    /\ source.body.operator = "+"
    /\ source.spaced
    /\ parsed.ok
    /\ parsed.node.type = "DiceWithOps"
    /\ Len(parsed.node.operations[1].selectors) = 2
    /\ Succeeded
    /\ result.total = result.value.dice[1].value

(***************************************************************************)
(* C31: in every tree parse returns the dice of a DiceWithOps is a Dice    *)
(* node.  Modifiers written one after the other on dice or on a set make   *)
(* one operations list in the order written, and so do modifiers written   *)
(* after a parenthesis around modified dice (((1d2k1)pl1)kh1); a modifier  *)
(* written after a parenthesis around a set makes a new set of one         *)
(* element, the set in the parenthesis with the modifiers it has, and is   *)
(* the first modifier of the new set.  Evaluation applies a list in its    *)
(* order: the pool is what the last modifier makes of the pool the         *)
(* modifiers before it leave.                                              *)
(***************************************************************************)
\* Every node of the tree, the tree first; selector targets included.
RECURSIVE Nodes(_)
RECURSIVE NodesOfAll(_, _)
RECURSIVE NodesOfOperations(_, _)
NodesOfAll(nodes, i) ==
    IF i > Len(nodes) THEN <<>> ELSE Nodes(nodes[i]) \o NodesOfAll(nodes, i + 1)

NodesOfOperations(operations, i) ==
    IF i > Len(operations) THEN <<>>
    ELSE NodesOfAll([j \in DOMAIN operations[i].selectors |->
                        operations[i].selectors[j].target], 1)
         \o NodesOfOperations(operations, i + 1)

Nodes(node) ==
    <<node>> \o
    CASE node.type = "Unary" -> Nodes(node.operand)
      [] node.type = "Binary" -> Nodes(node.left) \o Nodes(node.right)
      [] node.type = "Annotated" -> Nodes(node.expr)
      [] node.type = "Set" ->
           NodesOfAll(node.elements, 1) \o NodesOfOperations(node.operations, 1)
      [] node.type = "DiceWithOps" ->
           Nodes(node.dice) \o NodesOfOperations(node.operations, 1)
      [] node.type = "Dice" ->
           (IF node.num = None THEN <<>> ELSE Nodes(node.num))
           \o (IF node.size.kind = "Value" THEN Nodes(node.size.inner) ELSE <<>>)
      [] OTHER -> <<>>

DiceUnderOperations(nodes) ==
    \A k \in DOMAIN nodes :
       nodes[k].type = "DiceWithOps" =>
          nodes[k].dice.type = "Dice" /\ nodes[k].operations # <<>>

\* The operations the first n modifiers of the source stand for.
WrittenOperations(nested, n) ==
    [i \in 1..n |-> TailOperations(nested.tails[i])[1]]

\* The tree of the base under its first n modifiers.
RECURSIVE NestedTree(_, _)
NestedTree(nested, n) ==
    IF n = 0 THEN parse_input(nested.base).node
    ELSE IF n = 1 \/ ~nested.wrapped
    THEN WithTail(NestedTree(nested, n - 1), nested.tails[n])
    ELSE IF NestedTree(nested, n - 1).type = "Set"
    THEN SetNode(<<NestedTree(nested, n - 1)>>, TailOperations(nested.tails[n]))
    ELSE WithTail(NestedTree(nested, n - 1), nested.tails[n])

NestedParsed == parsed # NoParse /\ source.family = "nested"

\* The call rolled dice under modifiers and the pool is what the last
\* modifier makes of the pool the modifiers before it leave.
LastAppliedLast ==
    (Succeeded /\ call.expr.type = "DiceWithOps" /\ PrefixResult.ok) =>
        result.value.dice
          = [i \in DOMAIN result.value.dice |->
               refresh_drop_state(
                  apply_dice_operation(PrefixResult.value.dice, LastOperation,
                                       Uniform(1, result.value.size),
                                       call.expr.dice.size, PrefixResult.ev).dice[i])]

C31_ModifiersAccumulate ==
    /\ (parsed # NoParse /\ parsed.ok) => DiceUnderOperations(Nodes(parsed.node))
    /\ NestedParsed =>
          /\ parsed.ok
          /\ parsed.node = NestedTree(source.body, Len(source.body.tails))
          /\ parsed.node.type = "DiceWithOps" =>
                parsed.node.operations
                  = WrittenOperations(source.body, Len(source.body.tails))
          /\ LastAppliedLast

\* ((1d2k1)pl1)kh1 has been parsed and rolled: one DiceWithOps with the
\* three modifiers in the order written.
C31_Witness ==
    /\ NestedParsed
    /\ source.body.wrapped
    /\ Succeeded
    /\ parsed.node.type = "DiceWithOps"
    /\ parsed.node.dice = Dice(Num(1), Sized(2))
    /\ Len(parsed.node.operations) = MaxModifiers
    /\ parsed.node.operations[1].operator = "Keep"
    /\ parsed.node.operations[2].operator = "Drop"
    /\ parsed.node.operations[MaxModifiers].selectors[1].kind = "Highest"
    /\ result.value.operations = parsed.node.operations

\* C31 as stated: also after a parenthesis a modifier is appended to the
\* operations list of the set in the parenthesis.
C31_AppendedAfterParentheses ==
    NestedParsed =>
        /\ parsed.ok
        /\ parsed.node.type \in {"DiceWithOps", "Set"}
        /\ parsed.node.operations
             = WrittenOperations(source.body, Len(source.body.tails))

(***************************************************************************)
(* C32: in every tree parse returns no node of a selector's target carries *)
(* modifiers or annotations: the target holds no DiceWithOps, no Annotated *)
(* and no Set with operations.  The parser's selector depth is 0 when      *)
(* parse returns, with a tree or with an error, so it was put back at the  *)
(* end of every selector, parsed or failed.                                *)
(***************************************************************************)
\* The targets of the selectors of every node of the tree.
TargetsOf(nodes) ==
    UNION {UNION {{nodes[k].operations[i].selectors[j].target :
                      j \in DOMAIN nodes[k].operations[i].selectors} :
                  i \in DOMAIN nodes[k].operations} :
           k \in {k \in DOMAIN nodes : nodes[k].type \in {"DiceWithOps", "Set"}}}

Bare(nodes) ==
    \A k \in DOMAIN nodes :
       /\ nodes[k].type \notin {"DiceWithOps", "Annotated"}
       /\ nodes[k].type = "Set" => nodes[k].operations = <<>>

C32_TargetsBare ==
    parsed # NoParse =>
       /\ parsed.parser.selector_depth = 0
       /\ parsed.ok => \A target \in TargetsOf(Nodes(parsed.node)) : Bare(Nodes(target))

\* 1d2k(1d2)k1 has been parsed: the second modifier is the dice's, not the
\* target's.
C32_Witness ==
    /\ parsed # NoParse
    /\ parsed.ok
    /\ parsed.node.type = "DiceWithOps"
    /\ Len(parsed.node.operations) = 2
    /\ parsed.node.operations[1].selectors[1].target = Dice(Num(1), Sized(2))
    /\ input = <<"1", "d", "2", "k", "(", "1", "d", "2", ")", "k", "1">>

\* 1d2k(1d2k1 has failed inside the selector's target, at depth 1.
C32_FailedInside ==
    /\ parsed # NoParse
    /\ ~parsed.ok
    /\ parsed.parser.selector_depth = 0
    /\ input = <<"1", "d", "2", "k", "(", "1", "d", "2", "k", "1", ")">>

(***************************************************************************)
(* C33: no tree parse returns has an Annotated node whose expression is an *)
(* Annotated node.  Annotation groups written one after the other, and a   *)
(* group written after a parenthesis around an annotated expression, make  *)
(* one wrapper whose annotations are the groups in the order written.      *)
(***************************************************************************)
WrappedOnce(nodes) ==
    \A k \in DOMAIN nodes :
       nodes[k].type = "Annotated" =>
          nodes[k].expr.type # "Annotated" /\ nodes[k].annotations # <<>>

AnnotatedParsed == parsed # NoParse /\ source.family = "annotated"

WrittenAnnotations(annotated) ==
    [i \in DOMAIN annotated.tails |-> annotated.tails[i].annotation]

C33_OneWrapper ==
    /\ (parsed # NoParse /\ parsed.ok) => WrappedOnce(Nodes(parsed.node))
    /\ (AnnotatedParsed /\ source.body.base # <<"-", "1">>) =>
          /\ parsed.ok
          /\ parsed.node = Annotated(parse_input(source.body.base).node,
                                     WrittenAnnotations(source.body))

\* ((1 + 2)[a])[b] has been parsed: one wrapper around the sum.
C33_Witness ==
    /\ AnnotatedParsed
    /\ parsed.ok
    /\ input = <<"(", "(", "1", "+", "2", ")", "[", "a", "]", ")", "[", "b", "]">>
    /\ parsed.node.type = "Annotated"
    /\ parsed.node.expr.type = "Binary"
    /\ parsed.node.annotations = <<<<"a">>, <<"b">>>>

(***************************************************************************)
(* C34: when next_token is called in annotation mode and what is left of   *)
(* the input is not empty and holds no ']', the call fails with the Lexer  *)
(* error of an unterminated annotation, however long the rest is.  When    *)
(* nothing is left of the input the call returns Eof.                      *)
(***************************************************************************)
\* What was left of the input when the last call of next_token began.
LeftBefore == SubSeq(input, frame.before.pos + 1, Len(input))

Called == calls > 0

CalledInAnnotation ==
    /\ Called
    /\ frame.before.annotation_mode
    /\ \A i \in DOMAIN LeftBefore : LeftBefore[i] # "]"

Unterminated ==
    /\ ~frame.returned.ok
    /\ frame.returned.err = LexerError("Unterminated annotation; missing closing ']'")

C34_Unterminated ==
    /\ (CalledInAnnotation /\ LeftBefore # <<>>) => Unterminated
    /\ (CalledInAnnotation /\ LeftBefore = <<>>) =>
          frame.returned.ok /\ frame.returned.token.type = "Eof"

\* 1[a1: the call after '[' found the last characters and no ']'.
C34_Witness ==
    /\ CalledInAnnotation
    /\ Len(LeftBefore) = MaxText - 2
    /\ Len(frame.emitted) = 3
    /\ frame.emitted[2].type = "AnnotationStart"
    /\ Unterminated

\* C34 as stated: the call fails whatever the length of what is left.
C34_UnterminatedWhateverLeft == CalledInAnnotation => Unterminated

\* 1[: the call after '[' found nothing left and returned Eof, the lexer
\* still in annotation mode.
C34_NothingLeft ==
    /\ CalledInAnnotation
    /\ LeftBefore = <<>>
    /\ input = <<"1", "[">>
    /\ frame.returned.ok
    /\ frame.returned.token.type = "Eof"
    /\ frame.lexer.annotation_mode

(***************************************************************************)
(* C35: the lexer's cursor never moves back and never passes the end of    *)
(* the input.  A call of next_token that returns a token other than Eof    *)
(* moves the cursor forward by at least one character or leaves annotation *)
(* mode, so a measure of what is left, twice the characters ahead plus one *)
(* in annotation mode, gets smaller with every such token and the calls    *)
(* reach Eof or an error after finitely many tokens.  Once Eof has been    *)
(* returned every later call returns Eof.                                  *)
(***************************************************************************)
\* What a lexer has ahead of it.
Ahead(lexer) ==
    2 * (Len(lexer.chars) - lexer.pos) + (IF lexer.annotation_mode THEN 1 ELSE 0)

ReturnedToken == Called /\ frame.returned.ok /\ frame.returned.token.type # "Eof"

\* After an Eof every entry is an Eof.
EofLasts ==
    \A i \in DOMAIN frame.emitted :
       (i > 1 /\ frame.emitted[i - 1].type = "Eof") => frame.emitted[i].type = "Eof"

\* The tokens handed out that are not Eof.
TokensHanded ==
    Cardinality({i \in DOMAIN frame.emitted :
                    frame.emitted[i].type \notin {"Eof", "Error"}})

C35_CursorAdvances ==
    /\ frame.before.pos <= frame.lexer.pos
    /\ frame.lexer.pos <= Len(input)
    /\ frame.lexer.chars = input
    /\ ReturnedToken =>
          /\ \/ frame.lexer.pos > frame.before.pos
             \/ frame.before.annotation_mode /\ ~frame.lexer.annotation_mode
          /\ Ahead(frame.lexer) < Ahead(frame.before)
    /\ TokensHanded <= 2 * Len(input)
    /\ EofLasts
    /\ calls = MaxTokens => frame.emitted[MaxTokens].type \in {"Eof", "Error"}

\* [][]: six tokens from four characters, the text tokens without a move of
\* the cursor, then Eof twice.
C35_Witness ==
    /\ input = <<"[", "]", "[", "]">>
    /\ calls = MaxTokens
    /\ TokensHanded = 6
    /\ frame.emitted[2].type = "AnnotationText"
    /\ frame.emitted[MaxTokens - 1].type = "Eof"
    /\ frame.emitted[MaxTokens].type = "Eof"
    /\ frame.lexer.pos = Len(input)

(***************************************************************************)
(* C38: in the tokens a lexer hands out, what comes right after an         *)
(* AnnotationStart is an AnnotationText, an Eof or a lexical error; what   *)
(* comes right after an AnnotationText is an AnnotationEnd; and an         *)
(* AnnotationText comes nowhere but right after an AnnotationStart.  The   *)
(* lexer enters annotation mode when it hands out an AnnotationStart and   *)
(* leaves it when it hands out the AnnotationText; it is still in          *)
(* annotation mode after the Eof or the error that follows an              *)
(* AnnotationStart.                                                        *)
(***************************************************************************)
TypeAt(i) == frame.emitted[i].type

AnnotationOrder ==
    \A i \in DOMAIN frame.emitted :
       /\ (i > 1 /\ TypeAt(i - 1) = "AnnotationStart") =>
             TypeAt(i) \in {"AnnotationText", "Eof", "Error"}
       /\ (i > 1 /\ TypeAt(i - 1) = "AnnotationText") => TypeAt(i) = "AnnotationEnd"
       /\ TypeAt(i) = "AnnotationText" => (i > 1 /\ TypeAt(i - 1) = "AnnotationStart")

\* An AnnotationStart has been handed out and no AnnotationText since.
RECURSIVE OpenAt(_)
OpenAt(i) ==
    IF i = 0 THEN FALSE
    ELSE IF TypeAt(i) = "AnnotationStart" THEN TRUE
    ELSE IF TypeAt(i) = "AnnotationText" THEN FALSE
    ELSE OpenAt(i - 1)

IntegerOperands ==
    /\ Succeeded
    /\ call.expr.type = "Binary"
    /\ IsInteger(result.value.left.total)
    /\ IsInteger(result.value.right.total)

LeftInteger == result.value.left.total.n

RightInteger == result.value.right.total.n

\* The relation of a comparison operator, on integers.
Holds(operator, a, b) ==
    CASE operator = "Equal" -> a = b
      [] operator = "NotEqual" -> a # b
      [] operator = "Greater" -> a > b
      [] operator = "GreaterEqual" -> a >= b
      [] operator = "Less" -> a < b
      [] operator = "LessEqual" -> a <= b

\* The quotient of integers truncated toward zero.
Quotient(a, b) ==
    IF (a < 0) = (b < 0) THEN IAbs(a) \div IAbs(b) ELSE -(IAbs(a) \div IAbs(b))

\* What the Binary arm makes of the totals of the two operands under an
\* operator.
TotalOf(operator) == binary_total(operator, result.value.left.total,
                                  result.value.right.total)

C36_IntegerOperators ==
    IntegerOperands =>
       /\ call.expr.operator
            \in {"Equal", "NotEqual", "Greater", "GreaterEqual", "Less", "LessEqual"} =>
             result.total
               = (IF Holds(call.expr.operator, LeftInteger, RightInteger)
                  THEN Lit(1) ELSE Lit(0))
       /\ (call.expr.operator = "IntDivide" /\ RightInteger # 0) =>
             result.total = Lit(Quotient(LeftInteger, RightInteger))
       /\ (call.expr.operator = "Modulo" /\ RightInteger # 0) =>
             /\ IsInteger(result.total)
             /\ result.total.n = 0 \/ (result.total.n < 0) = (LeftInteger < 0)
             /\ IAbs(result.total.n) < IAbs(RightInteger)
       /\ (call.expr.operator \in {"IntDivide", "Modulo"} /\ RightInteger # 0) =>
             /\ IsInteger(TotalOf("IntDivide")) /\ IsInteger(TotalOf("Modulo"))
             /\ TotalOf("IntDivide").n * RightInteger + TotalOf("Modulo").n
                  = LeftInteger

\* -7 // 2 = -3
C36_Witness ==
    /\ IntegerOperands
    /\ call.expr = Binary("IntDivide", Num(-7), Num(2))
    /\ result.total = Lit(-3)
    /\ TotalOf("Modulo") = Lit(-1)

(***************************************************************************)
(* C37: in a dice pool a die that is not kept stays as it is under every   *)
(* later modifier: the modifier's selectors do not select it, and its      *)
(* value, rolls, adjustments, origin and kept flag are after the modifier  *)
(* what they were before it.  A die that is kept after a modifier was kept *)
(* before it, and a pool without a kept die gets no new die and no roll.   *)
(***************************************************************************)
AfterPrefix ==
    /\ Succeeded
    /\ call.expr.type = "DiceWithOps"
    /\ call.expr.operations # <<>>
    /\ PrefixResult.ok

\* The dice the selectors of the last modifier select in the pool the
\* modifiers before it leave.
SelectedByLast(before) ==
    select_dice(before, LastOperation.selectors, PrefixResult.ev)

Frozen(before, after) ==
    /\ Len(after) >= Len(before)
    /\ \A i \in DOMAIN before :
          /\ ~before[i].kept =>
                SameDie(before[i], after[i]) /\ after[i].dropped = before[i].dropped
          /\ after[i].kept => before[i].kept
    /\ SelectedByLast(before).ok =>
          \A i \in seq_set(SelectedByLast(before).indices) : before[i].kept
    /\ (\A i \in DOMAIN before : ~before[i].kept) =>
          /\ after = before
          /\ result.ev.rolls = RollsBeforeLast

C37_DroppedFrozen == AfterPrefix => Frozen(BeforeLast, result.value.dice)

\* Both dice show the highest face and the first modifier drops them; the
\* second, a Reroll, an Explode, a Maximum or another, with a selector for
\* that face, leaves them as they are.
C37_Witness ==
    /\ AfterPrefix
    /\ Len(call.expr.operations) = 2
    /\ call.expr.operations[1]
         = SetOperation("Drop", <<Selector("Literal", Num(MaxFaces))>>)
    /\ LastOperation.operator \in {"Reroll", "RerollAdd", "Explode", "Maximum"}
    /\ LastOperation.selectors = <<Selector("Literal", Num(MaxFaces))>>
    /\ Len(result.value.dice) = MaxQuantity
    /\ \A i \in DOMAIN result.value.dice :
          /\ ~result.value.dice[i].kept
          /\ result.value.dice[i].rolls = <<Lit(MaxFaces)>>

\* A die dropped by the first modifier and one kept, under a RerollOnce
\* that selects the kept die: it is rolled again and the dropped one is not.
C37_OneDropped ==
    /\ AfterPrefix
    /\ Len(call.expr.operations) = 2
    /\ call.expr.operations[1].operator = "Drop"
    /\ LastOperation.operator = "RerollOnce"
    /\ \E i, j \in DOMAIN result.value.dice :
          /\ ~result.value.dice[i].kept
          /\ Len(result.value.dice[i].rolls) = 1
          /\ Len(result.value.dice[j].rolls) = 2

(***************************************************************************)
(* C39: a Reroll with one selector, Highest or Lowest, whose count is a    *)
(* constant that as_usize takes for an integer of at least 1, never        *)
(* succeeds on a pool with a kept die: every pass selects a die and rolls  *)
(* it, and the call fails with the roll-budget error when the budget is    *)
(* spent, whatever the dice show.                                          *)
(***************************************************************************)
CountedRerollLast ==
    /\ Returned
    /\ call.expr.type = "DiceWithOps"
    /\ call.expr.operations # <<>>
    /\ LastOperation.operator = "Reroll"
    /\ Len(LastOperation.selectors) = 1
    /\ LastOperation.selectors[1].kind \in {"Highest", "Lowest"}
    /\ LastOperation.selectors[1].target \in RerollCounts

\* The count of the selector: its target rolls no die.
CountOfLast ==
    as_usize(evaluate_with_rng(LastOperation.selectors[1].target, call.config,
                               call.rng).total, "selector")

SomeKept(dice) == \E i \in DOMAIN dice : dice[i].kept

BudgetSpent ==
    /\ Failed
    /\ result.err = BudgetError
    /\ result.ev.rolls = call.config.max_rolls

C39_RerollNeverSucceeds ==
    (CountedRerollLast /\ CountOfLast.ok /\ CountOfLast.n >= 1) =>
        /\ (PrefixResult.ok /\ SomeKept(PrefixResult.value.dice)) => BudgetSpent
        /\ ~PrefixResult.ok => (Failed /\ result.err = PrefixResult.err)

\* 2d2 rrh1 with a budget that covers the two dice and more: the passes have
\* spent the rest of it.
C39_Witness ==
    /\ CountedRerollLast
    /\ CountOfLast.n = 1
    /\ Len(call.expr.operations) = 1
    /\ LastOperation.selectors[1].kind = "Highest"
    /\ PrefixResult.ok
    /\ SomeKept(PrefixResult.value.dice)
    /\ call.config.max_rolls = MaxRolls
    /\ PrefixResult.ev.rolls = MaxQuantity
    /\ BudgetSpent

\* The first modifier has dropped every die: the Reroll selects none and the
\* call succeeds.
C39_NoneKept ==
    /\ CountedRerollLast
    /\ CountOfLast.ok
    /\ CountOfLast.n >= 1
    /\ PrefixResult.ok
    /\ ~SomeKept(PrefixResult.value.dice)
    /\ Succeeded

\* A count of 1.5: the Reroll fails on the count before its first pass.
C39_CountRefused ==
    /\ CountedRerollLast
    /\ LastOperation.selectors[1].target = Half(3)
    /\ PrefixResult.ok
    /\ SomeKept(PrefixResult.value.dice)
    /\ Failed
    /\ result.err # BudgetError
    /\ result.ev.rolls = PrefixResult.ev.rolls

====
